---- MODULE Spec2Model ----
(***************************************************************************)
(* A model of levelup-bot: the word pacing pipeline (word_sender_loop ->   *)
(* queue.Queue -> message_worker thread -> send_message_to_group on the    *)
(* event loop), Bot.shutdown, the bonus loop, start-up, the rate window    *)
(* of config/settings.py and the event router handle_new_message.          *)
(*                                                                         *)
(* Durations are in centiseconds (1 s = 100), so 3.27 s is 327.            *)
(***************************************************************************)
EXTENDS Integers, Sequences, FiniteSets, TLC

(***************************************************************************)
(* Bounds of the model                                                     *)
(***************************************************************************)
\* the word producer enqueues at most this many requests
MaxWords == 3
\* the bonus loop issues at most this many sends
MaxBonusSends == 3
\* the transport delivers at most this many events to the router
MaxEvents == 1

(***************************************************************************)
(* Program constants                                                       *)
(***************************************************************************)
DELETE_WAIT_TIME == 100
SLEEP_CHUNK == 50
RESULT_TIMEOUT == 1000
ERROR_BACKOFF == 500
MIN_FLOOR == 10
FAST_MIN == 327
FAST_MAX == 400
SLOW_MIN == 2400
SLOW_MAX == 3600
BONUS_INTERVAL_MIN == 18100
BONUS_INTERVAL_MAX == 30000

\* Python's None: the poison value Bot.shutdown puts, and "no message"
None == [type |-> "None"]
\* a local variable not yet assigned
Unbound == [type |-> "unbound"]
\* the Message object client.send_message returns for the k-th send
Message(k) == [type |-> "Message", id |-> k]

\* the target group: a Channel entity with its identifier
GroupId == 5
Channel(id) == [type |-> "Channel", id |-> id]

Max(a, b) == IF a >= b THEN a ELSE b
Min(a, b) == IF a <= b THEN a ELSE b

VARIABLES
  \* configuration (config/settings.py), fixed for a run
  ENABLE_WORD_SENDING, ENABLE_BONUS_MESSAGES,
  WORD_SENDER_SLOW_MODE, AUTO_DELETE_WORD_MESSAGES,
  ENABLE_MATH_CHALLENGES, ENABLE_BOX_MESSAGES, MESSAGE_SENDER_USERNAME,
  \* main() and Bot.initialize / Bot.start
  m_pc,              \* position of main()
  group_entity,      \* Bot.group_entity
  ocr_model,         \* Bot.ocr_model is not None
  handler_registered,\* client.add_event_handler was called
  \* the event router: the invocations of handle_new_message, one per
  \* event delivered, and the tasks they created, in order
  handlers, tasks,
  \* Bot fields
  wordlist,          \* Bot.wordlist
  running,           \* Bot.running (asyncio.Event)
  worker_running,    \* Bot.worker_running (threading.Event)
  message_queue,     \* Bot.message_queue (queue.Queue), head first
  put_log,           \* history: the kind of every item ever put in the queue
  \* message_worker thread
  w_pc,              \* position of the worker thread
  message_data,      \* the item the worker dequeued last
  sent_message,      \* the worker's local sent_message
  delay, elapsed,    \* the pacing sleep of the current iteration
  \* event loop: the send_message_to_group coroutines, one per send started
  co,
  \* word_sender_loop task
  p_pc, p_cancel,
  \* Bot.run / Bot.shutdown
  sd_pc, connected,
  phases,            \* history: the phases Bot.shutdown has begun, in order
  \* bonus_message_loop task
  b_pc, b_cancel,
  now,               \* time.time(), centiseconds since the start
  last_send_time, next_interval, wake_at,
  b_call,            \* the current (or last) send_bonus_message call
  bonus_times,       \* history: when each bonus send was issued
  bonus_intervals,   \* history: the interval drawn at line 83 of each cycle
  \* parse_and_solve_math
  expr,              \* the expression the text was written from
  text,              \* the argument, a sequence of characters
  result,            \* the value returned
  \* the handler tasks and the OCR pool
  ct,                \* the state of each task of tasks that has started
  ocr_queue,         \* the recognize calls submitted and not yet taken
  ocr_running,       \* the tasks whose recognize call a pool thread runs
  \* process_box_message on one message
  reply_markup,      \* message.reply_markup: None or the keyboard's rows
  box,               \* the locals of the call, None before it
  \* schedule_bonus.py
  s_pc,              \* where schedule_bonus_messages is
  message_count,     \* its counter of the messages attempted
  failures,          \* history: the messages whose scheduling failed
  s_end,             \* history: how the run ended
  \* auto-delete
  deleters,          \* the deletion threads the worker started, in order
  pace               \* history: the time since the worker's last send

cfgVars == <<ENABLE_WORD_SENDING, ENABLE_BONUS_MESSAGES,
             WORD_SENDER_SLOW_MODE, AUTO_DELETE_WORD_MESSAGES,
             ENABLE_MATH_CHALLENGES, ENABLE_BOX_MESSAGES,
             MESSAGE_SENDER_USERNAME>>
startVars == <<m_pc, group_entity, ocr_model, handler_registered>>
routerVars == <<handlers, tasks>>
solverVars == <<expr, text, result>>
chVars == <<ct, ocr_queue, ocr_running>>
boxVars == <<reply_markup, box>>
schedVars == <<s_pc, message_count, failures, s_end>>
\* what the worker, the send coroutines, the producer, the bonus loop and
\* the shutdown leave alone
restVars == <<cfgVars, solverVars, chVars, boxVars, schedVars, wordlist,
              startVars, routerVars>>
flagVars == <<running, worker_running>>
queueVars == <<message_queue, put_log>>
paceVars == <<deleters, pace>>
wVars == <<w_pc, message_data, sent_message, delay, elapsed, paceVars>>
pVars == <<p_pc, p_cancel>>
sdVars == <<sd_pc, connected, phases>>
pipeVars == <<flagVars, queueVars, wVars, co, pVars, sdVars>>
bonusHist == <<bonus_times, bonus_intervals>>
bVars == <<b_pc, b_cancel, now, last_send_time, next_interval, wake_at,
           b_call, bonusHist>>
vars == <<restVars, pipeVars, bVars>>

(***************************************************************************)
(* Rate window, config/settings.py lines 43-60                             *)
(***************************************************************************)
base_min_delay == IF WORD_SENDER_SLOW_MODE THEN FAST_MIN ELSE SLOW_MIN
base_max_delay == IF WORD_SENDER_SLOW_MODE THEN FAST_MAX ELSE SLOW_MAX

\* a faulty derivation that adjusts the upper end only
MinDelayUnadjusted == base_min_delay

MIN_MESSAGE_DELAY ==
  IF AUTO_DELETE_WORD_MESSAGES
    THEN Max(MIN_FLOOR, base_min_delay - DELETE_WAIT_TIME)
    ELSE base_min_delay

MAX_MESSAGE_DELAY ==
  IF AUTO_DELETE_WORD_MESSAGES
    THEN Max(MIN_FLOOR, base_max_delay - DELETE_WAIT_TIME)
    ELSE base_max_delay

\* random.uniform(MIN_MESSAGE_DELAY, MAX_MESSAGE_DELAY): the two ends of the
\* window stand for the draw
DelayDraws == {MIN_MESSAGE_DELAY, MAX_MESSAGE_DELAY}

(***************************************************************************)
(* The send coroutines on the event loop.  co is the sequence of the       *)
(* coroutines message_worker handed to run_coroutine_threadsafe, in order; *)
(* co[k] belongs to the k-th send the worker started.                      *)
(*   st       scheduled: handed over, not yet started by the loop          *)
(*            sending:   awaiting client.send_message                      *)
(*            floodwait: in asyncio.sleep(e.seconds) after FloodWaitError  *)
(*            done:      returned (or cancelled)                           *)
(*   result   what future.result() gives: pending, msg, none, cancelled    *)
(*   attempts the number of client.send_message calls made                 *)
(*   flood    the wait the rate-limit signal carried (0: none raised)      *)
(*   waited   the time slept after the rate-limit signal                   *)
(*   stopped  history: worker_running was already cleared at the start     *)
(***************************************************************************)
\* the waits (in seconds) a FloodWaitError may carry
FloodSeconds == {30}

NewCoroutine(stopped) ==
  [st |-> "scheduled", result |-> "pending", attempts |-> 0, flood |-> 0,
   waited |-> 0, cancel |-> FALSE, stopped |-> stopped]

InFlight(c) == c.st \in {"scheduled", "sending", "floodwait"}

\* the event loop thread is free to run callbacks and coroutine steps: not
\* blocked in worker_thread.join (bot.py line 274) and the process not over
LoopRuns == sd_pc \notin {"join", "join_cancelled", "exited"}
Alive == sd_pc # "exited"

(***************************************************************************)
(* message_worker, services/message_worker.py                              *)
(***************************************************************************)
\* how long a call of the transport may take (10 ms, 2 s)
SendDurations == {1, 200}

\* The time of the worker's cycle is kept while auto-delete is enabled:
\* pace is the time the worker has spent, since it started its last send,
\* waiting for the result, in the pacing sleep and in the back-off (-1: no
\* send yet, or the worker has waited for a request since).
Pace(p) == pace' = IF AUTO_DELETE_WORD_MESSAGES THEN p ELSE pace

\* a deletion thread sleeps DELETE_WAIT_TIME: the worker's time does not
\* pass the end of that sleep while the thread has not woken
Tick(dt) ==
  /\ \A i \in 1..Len(deleters) :
       deleters[i].st = "sleeping" => deleters[i].due >= pace + dt
  /\ Pace(IF pace >= 0 THEN pace + dt ELSE pace)

\* a faulty loop test, "while True": the worker ignores the stop flag
W_CheckIgnoringFlag ==
  /\ Alive /\ w_pc = "check"
  /\ w_pc' = "get"
  /\ UNCHANGED <<message_data, sent_message, delay, elapsed, paceVars>>
  /\ UNCHANGED <<restVars, flagVars, queueVars, co, pVars, sdVars, bVars>>

\* line 35: while running_flag.is_set()   (event_loop is client.loop, set
\* before the thread is created, so lines 38-40 never run)
W_Check ==
  /\ Alive /\ w_pc = "check"
  /\ w_pc' = IF worker_running THEN "get" ELSE "done"
  /\ UNCHANGED <<message_data, sent_message, delay, elapsed, paceVars>>
  /\ UNCHANGED <<restVars, flagVars, queueVars, co, pVars, sdVars, bVars>>

\* lines 43-46: get(timeout=1) on an empty queue raises queue.Empty:
\* continue; the time to the next send is no longer that of one cycle
W_GetEmpty ==
  /\ Alive /\ w_pc = "get" /\ message_queue = <<>>
  /\ w_pc' = "check"
  /\ Pace(-1)
  /\ UNCHANGED <<message_data, sent_message, delay, elapsed, deleters>>
  /\ UNCHANGED <<restVars, flagVars, queueVars, co, pVars, sdVars, bVars>>

\* a faulty dispatch: None is skipped like an unknown item, not a signal
AfterGetIgnoringPoison(item) ==
  IF item = None THEN "task_done"
  ELSE IF item.type = "word" THEN "send" ELSE "task_done"

\* where the worker goes with the item it dequeued, lines 48-53
AfterGet(item) ==
  IF item = None THEN "done"
  ELSE IF item.type = "word" THEN "send" ELSE "task_done"

\* lines 44-55: get an item; None breaks out of the loop
W_Get ==
  /\ Alive /\ w_pc = "get" /\ message_queue # <<>>
  /\ message_data' = Head(message_queue)
  /\ message_queue' = Tail(message_queue)
  /\ w_pc' = AfterGet(Head(message_queue))
  /\ sent_message' = IF Head(message_queue) = None THEN sent_message ELSE None
  /\ UNCHANGED <<put_log, delay, elapsed, paceVars>>
  /\ UNCHANGED <<restVars, flagVars, co, pVars, sdVars, bVars>>

\* lines 57-60: run_coroutine_threadsafe(send_message_to_group(...))
W_Send ==
  /\ Alive /\ w_pc = "send"
  /\ co' = Append(co, NewCoroutine(~worker_running))
  /\ w_pc' = "wait_result"
  /\ Pace(0)
  /\ UNCHANGED <<message_data, sent_message, delay, elapsed, deleters>>
  /\ UNCHANGED <<restVars, flagVars, queueVars, pVars, sdVars, bVars>>

\* a faulty handler: a failed send skips the pacing sleep ("continue")
AfterSendSkippingSleep(r, d) ==
  /\ sent_message' = r
  /\ delay' = d
  /\ elapsed' = 0
  /\ w_pc' = IF r = None THEN "task_done" ELSE "sleep"
  /\ UNCHANGED deleters

\* a deletion thread in time.sleep(DELETE_WAIT_TIME), line 69, started for
\* the message r of this iteration; the closure holds the worker's variable
\* sent_message, not its value, so the thread has no message of its own yet
NewDeleter(r) == [st |-> "sleeping", due |-> pace' + DELETE_WAIT_TIME,
                  sent |-> r, message |-> None]

\* the worker's step after the send attempt, lines 62-89: with the result r
\* (None on any failure) it starts the deletion thread if auto-delete is
\* enabled and the send gave a message, draws the pacing delay and enters
\* the sleep loop.  Thread.start() raises RuntimeError when no thread can
\* be started: the except of line 97 then takes the worker to the back-off.
AfterSend(r, d) ==
  /\ sent_message' = r
  /\ \/ /\ deleters' = IF AUTO_DELETE_WORD_MESSAGES /\ r # None
                          THEN Append(deleters, NewDeleter(r)) ELSE deleters
        /\ delay' = d
        /\ elapsed' = 0
        /\ w_pc' = "sleep"
     \/ /\ AUTO_DELETE_WORD_MESSAGES /\ r # None
        /\ w_pc' = "backoff"
        /\ UNCHANGED <<deleters, delay, elapsed>>

\* line 61: future.result(timeout=10) returns the coroutine's result, or
\* raises because the coroutine was cancelled (caught at line 62)
W_Result ==
  /\ Alive /\ w_pc = "wait_result"
  /\ co[Len(co)].st = "done"
  /\ \E waited \in SendDurations : Tick(waited)
  /\ \E d \in DelayDraws :
       AfterSend(IF co[Len(co)].result = "msg" THEN Message(Len(co))
                                                   ELSE None, d)
  /\ UNCHANGED message_data
  /\ UNCHANGED <<restVars, flagVars, queueVars, co, pVars, sdVars, bVars>>

\* line 61: the coroutine is still running after 10 s: TimeoutError, caught
\* at line 62; the future is not cancelled.  The loop starts a scheduled
\* coroutine within the 10 s (it is blocked for at most the 2 s of join).
W_ResultTimeout ==
  /\ Alive /\ w_pc = "wait_result"
  /\ co[Len(co)].st \in {"sending", "floodwait"}
  /\ Tick(RESULT_TIMEOUT)
  /\ \E d \in DelayDraws : AfterSend(None, d)
  /\ UNCHANGED message_data
  /\ UNCHANGED <<restVars, flagVars, queueVars, co, pVars, sdVars, bVars>>

\* a faulty sleep loop, "while elapsed < delay": the flag is not read
W_SleepIgnoringFlag ==
  /\ Alive /\ w_pc = "sleep"
  /\ IF elapsed < delay
       THEN /\ elapsed' = elapsed + Min(SLEEP_CHUNK, delay - elapsed)
            /\ Tick(Min(SLEEP_CHUNK, delay - elapsed))
            /\ w_pc' = w_pc
       ELSE /\ w_pc' = "task_done"
            /\ elapsed' = elapsed
            /\ UNCHANGED pace
  /\ UNCHANGED <<message_data, sent_message, delay, deleters>>
  /\ UNCHANGED <<restVars, flagVars, queueVars, co, pVars, sdVars, bVars>>

\* lines 90-93: one turn of the sliced sleep loop
W_Sleep ==
  /\ Alive /\ w_pc = "sleep"
  /\ IF elapsed < delay /\ worker_running
       THEN /\ elapsed' = elapsed + Min(SLEEP_CHUNK, delay - elapsed)
            /\ Tick(Min(SLEEP_CHUNK, delay - elapsed))
            /\ w_pc' = w_pc
       ELSE /\ w_pc' = "task_done"
            /\ elapsed' = elapsed
            /\ UNCHANGED pace
  /\ UNCHANGED <<message_data, sent_message, delay, deleters>>
  /\ UNCHANGED <<restVars, flagVars, queueVars, co, pVars, sdVars, bVars>>

\* line 95: message_queue.task_done(), then back to the loop test
W_TaskDone ==
  /\ Alive /\ w_pc = "task_done"
  /\ w_pc' = "check"
  /\ UNCHANGED <<message_data, sent_message, delay, elapsed, paceVars>>
  /\ UNCHANGED <<restVars, flagVars, queueVars, co, pVars, sdVars, bVars>>

\* lines 97-99: an exception of the loop body is logged, the worker sleeps
\* 5 seconds and goes back to the loop test (task_done is not called)
W_Backoff ==
  /\ Alive /\ w_pc = "backoff"
  /\ Tick(ERROR_BACKOFF)
  /\ w_pc' = "check"
  /\ UNCHANGED <<message_data, sent_message, delay, elapsed, deleters>>
  /\ UNCHANGED <<restVars, flagVars, queueVars, co, pVars, sdVars, bVars>>

(***************************************************************************)
(* delete_message_after_delay, message_worker.py lines 67-79, one daemon   *)
(* thread per word message sent with auto-delete enabled.  sent_message is *)
(* the worker's local, read by the closure when the thread wakes.          *)
(***************************************************************************)
SetDeleter(i, d) == deleters' = [deleters EXCEPT ![i] = d]

DeleterUnchanged ==
  UNCHANGED <<restVars, flagVars, queueVars, w_pc, message_data,
              sent_message, delay, elapsed, pace, co, pVars, sdVars, bVars>>

\* a faulty thread without the test of the flag at line 70
AfterWaitIgnoringFlag(d) ==
  IF sent_message # None
    THEN [d EXCEPT !.st = "deleting", !.message = sent_message]
    ELSE [d EXCEPT !.st = "skipped"]

\* lines 69-75: after the sleep the delete is handed to the event loop if
\* the worker's flag is still set and the worker's variable sent_message,
\* read now, holds a message ("no_message": the flag is set, the variable
\* is None); else the thread ends
AfterWait(d) ==
  IF worker_running /\ sent_message # None
    THEN [d EXCEPT !.st = "deleting", !.message = sent_message]
    ELSE [d EXCEPT !.st = IF worker_running THEN "no_message" ELSE "skipped"]

\* line 69: time.sleep suspends the thread for at least DELETE_WAIT_TIME;
\* the thread may be scheduled later than that by an arbitrary amount, and
\* the worker's time then passes the end of the sleep
D_Oversleep(i) ==
  /\ Alive /\ deleters[i].st = "sleeping"
  /\ SetDeleter(i, [deleters[i] EXCEPT !.st = "overslept"])
  /\ DeleterUnchanged

D_Wake(i) ==
  /\ Alive /\ deleters[i].st \in {"sleeping", "overslept"}
  /\ SetDeleter(i, AfterWait(deleters[i]))
  /\ DeleterUnchanged

\* line 76: the delete coroutine ran on the loop and returned
D_Deleted(i) ==
  /\ LoopRuns /\ connected /\ deleters[i].st = "deleting"
  /\ SetDeleter(i, [deleters[i] EXCEPT !.st = "deleted"])
  /\ DeleterUnchanged

\* lines 76-79: the delete raised, or gave no result within 5 seconds
D_Failed(i) ==
  /\ Alive /\ deleters[i].st = "deleting"
  /\ SetDeleter(i, [deleters[i] EXCEPT !.st = "failed"])
  /\ DeleterUnchanged

Deleter ==
  \E i \in 1..Len(deleters) : D_Wake(i) \/ D_Deleted(i) \/ D_Failed(i)

Worker ==
  \/ W_Check \/ W_GetEmpty \/ W_Get \/ W_Send \/ W_Result
  \/ W_ResultTimeout \/ W_Sleep \/ W_TaskDone

(***************************************************************************)
(* send_message_to_group, telegram/messaging.py lines 11-36, one step per  *)
(* await.  group_entity is set before the worker exists (Bot.initialize    *)
(* returns False without it), so lines 23-25 never run.                    *)
(***************************************************************************)
SetCo(k, c) == co' = [co EXCEPT ![k] = c]

\* the loop starts the coroutine: line 27 calls client.send_message
Co_Start(k) ==
  /\ LoopRuns /\ co[k].st = "scheduled"
  /\ SetCo(k, [co[k] EXCEPT !.st = "sending", !.attempts = @ + 1])
  /\ UNCHANGED <<restVars, flagVars, queueVars, wVars, pVars, sdVars, bVars>>

\* lines 27-29: the transport delivers the message
Co_Sent(k) ==
  /\ LoopRuns /\ co[k].st = "sending" /\ ~co[k].cancel /\ connected
  /\ SetCo(k, [co[k] EXCEPT !.st = "done", !.result = "msg"])
  /\ UNCHANGED <<restVars, flagVars, queueVars, wVars, pVars, sdVars, bVars>>

\* what the coroutine does when the transport raises FloodWaitError with
\* wait w, lines 30-32: it starts asyncio.sleep(e.seconds)
OnFloodWait(c, w) == [c EXCEPT !.st = "floodwait", !.flood = w]

Co_FloodWait(k) ==
  /\ LoopRuns /\ co[k].st = "sending" /\ ~co[k].cancel /\ connected
  /\ \E w \in FloodSeconds : SetCo(k, OnFloodWait(co[k], w))
  /\ UNCHANGED <<restVars, flagVars, queueVars, wVars, pVars, sdVars, bVars>>

\* what the coroutine does when the sleep of line 32 is over, line 33
AfterFloodWait(c) ==
  [c EXCEPT !.st = "done", !.result = "none", !.waited = c.flood]

Co_FloodDone(k) ==
  /\ LoopRuns /\ co[k].st = "floodwait" /\ ~co[k].cancel
  /\ SetCo(k, AfterFloodWait(co[k]))
  /\ UNCHANGED <<restVars, flagVars, queueVars, wVars, pVars, sdVars, bVars>>

\* lines 34-36: any other exception of the transport
Co_Error(k) ==
  /\ LoopRuns /\ co[k].st = "sending" /\ ~co[k].cancel
  /\ SetCo(k, [co[k] EXCEPT !.st = "done", !.result = "none"])
  /\ UNCHANGED <<restVars, flagVars, queueVars, wVars, pVars, sdVars, bVars>>

\* the task was cancelled (utils/shutdown.py line 39): CancelledError is
\* raised at the await and is no Exception, so it leaves the coroutine
Co_Cancelled(k) ==
  /\ LoopRuns /\ co[k].st \in {"sending", "floodwait"} /\ co[k].cancel
  /\ SetCo(k, [co[k] EXCEPT !.st = "done", !.result = "cancelled"])
  /\ UNCHANGED <<restVars, flagVars, queueVars, wVars, pVars, sdVars, bVars>>

SendCoroutine ==
  \E k \in 1..Len(co) :
    \/ Co_Start(k) \/ Co_Sent(k) \/ Co_FloodWait(k) \/ Co_FloodDone(k)
    \/ Co_Error(k) \/ Co_Cancelled(k)

(***************************************************************************)
(* word_sender_loop, services/word_sender.py.  The task runs from one      *)
(* await to the next without interruption by other coroutines.             *)
(*   p_pc  none: no task, ready: created and not yet run, sleep: in        *)
(*         asyncio.sleep(delay) of line 58, backoff: in asyncio.sleep(5)   *)
(*         of line 65, done: returned, cancelled                           *)
(***************************************************************************)
WordsPut == Len(SelectSeq(put_log, LAMBDA x : x = "word"))

\* a faulty queue made with queue.Queue(maxsize=1): put blocks while full
PutWhenRoom(item) ==
  /\ Len(message_queue) < 1
  /\ message_queue' = Append(message_queue, item)
  /\ put_log' = Append(put_log, IF item = None THEN "poison" ELSE item.type)

\* message_queue.put(item) on the queue.Queue() of bot.py line 66, which
\* has no capacity limit, with the history of what was put
Put(item) ==
  /\ message_queue' = Append(message_queue, item)
  /\ put_log' = Append(put_log, IF item = None THEN "poison" ELSE item.type)

\* lines 43-58: the loop test, random.choice, the put, and the sleep begins;
\* the loop ends when the flag is cleared
P_Iterate ==
  /\ LoopRuns /\ p_pc \in {"ready", "sleep", "backoff"} /\ ~p_cancel
  /\ IF running
       THEN /\ WordsPut < MaxWords
            /\ \E i \in 1..Len(wordlist) :
                 Put([type |-> "word", message |-> wordlist[i]])
            /\ p_pc' = "sleep"
       ELSE /\ p_pc' = "done"
            /\ UNCHANGED queueVars
  /\ UNCHANGED <<restVars, flagVars, wVars, co, p_cancel, sdVars, bVars>>

\* a faulty handler that returns after logging the error
P_ErrorEndingLoop ==
  /\ LoopRuns /\ p_pc \in {"ready", "sleep", "backoff"} /\ ~p_cancel
  /\ running
  /\ p_pc' = "done"
  /\ UNCHANGED queueVars
  /\ UNCHANGED <<restVars, flagVars, wVars, co, p_cancel, sdVars, bVars>>

\* lines 63-65: a statement of the loop body raises an Exception, before
\* or after the put; it is logged and the 5-second sleep begins
P_Error ==
  /\ LoopRuns /\ p_pc \in {"ready", "sleep", "backoff"} /\ ~p_cancel
  /\ running
  /\ \/ UNCHANGED queueVars
     \/ /\ WordsPut < MaxWords
        /\ \E i \in 1..Len(wordlist) :
             Put([type |-> "word", message |-> wordlist[i]])
  /\ p_pc' = "backoff"
  /\ UNCHANGED <<restVars, flagVars, wVars, co, p_cancel, sdVars, bVars>>

\* lines 60-62: CancelledError at the await of line 58 (or before the first
\* step) is re-raised and ends the task; at the await of line 65, which is
\* inside the except block, it is raised out of the function
P_Cancelled ==
  /\ LoopRuns /\ p_pc \in {"ready", "sleep", "backoff"} /\ p_cancel
  /\ p_pc' = "cancelled"
  /\ UNCHANGED <<restVars, flagVars, queueVars, wVars, co, p_cancel, sdVars,
                 bVars>>

Producer == P_Iterate \/ P_Cancelled

(***************************************************************************)
(* bonus_message_loop, services/bonus_sender.py lines 55-111, with         *)
(* send_bonus_message, telegram/messaging.py lines 39-64.  The task runs   *)
(* from one await to the next; the time that passes at an await is added   *)
(* to now.                                                                 *)
(*   b_pc  none: no task, ready: created and not yet run, sending: in      *)
(*         client.send_message, floodwait: in asyncio.sleep(e.seconds) of  *)
(*         send_bonus_message, sleep: in asyncio.sleep(sleep_time) of line *)
(*         95, done: returned, cancelled                                   *)
(***************************************************************************)
\* _get_random_interval, lines 40-52: round(random.uniform(MIN, MAX), 2);
\* the two ends of the window stand for the draw
IntervalDraws == {BONUS_INTERVAL_MIN, BONUS_INTERVAL_MAX}

NewCall == [attempts |-> 1, flood |-> 0, waited |-> 0, result |-> "pending"]

\* a faulty loop that hands the bonus message to the worker's queue
IssueBonusThroughQueue(t) ==
  /\ bonus_times' = Append(bonus_times, t)
  /\ b_call' = NewCall
  /\ b_pc' = "sending"
  /\ Put([type |-> "bonus", message |-> "bonus"])

\* lines 73 and 99-100: send_bonus_message is called at time t; its line
\* 55 calls client.send_message.  The queue is not involved.
IssueBonus(t) ==
  /\ bonus_times' = Append(bonus_times, t)
  /\ b_call' = NewCall
  /\ b_pc' = "sending"
  /\ UNCHANGED queueVars

\* a faulty loop that never records the time of a send
LastSendTimeStale(t) == last_send_time

\* the time of the last send the loop keeps when a send completed at time t
\* (lines 74 and 100)
LastSendTime(t) == t

\* lines 85-92: the sleep before the next send, for the interval i drawn,
\* the clock reading t and the time of the last send
SleepTime(i, t, last) == Max(0, i - (t - last))

\* what follows the return of send_bonus_message at time t with the call
\* record c, up to the next await: lines 74-77 or 100-104, the loop test of
\* line 80 and lines 82-99.  With sleep_time 0 nothing is awaited and the
\* next send follows at once.
AfterBonusSendAt(t, c, last) ==
  /\ now' = t
  /\ last_send_time' = last
  /\ IF running
       THEN \E i \in IntervalDraws :
              /\ next_interval' = i
              /\ bonus_intervals' = Append(bonus_intervals, i)
              /\ IF SleepTime(i, t, last_send_time') > 0
                   THEN /\ wake_at' = t + SleepTime(i, t, last_send_time')
                        /\ b_pc' = "sleep"
                        /\ b_call' = c
                        /\ UNCHANGED <<bonus_times, queueVars>>
                   ELSE /\ Len(bonus_times) < MaxBonusSends
                        /\ IssueBonus(t)
                        /\ UNCHANGED wake_at
       ELSE /\ b_pc' = "done"
            /\ b_call' = c
            /\ UNCHANGED <<next_interval, wake_at, bonusHist, queueVars>>

\* a faulty loop that records the time of a send only when it returned True
AfterBonusSendIfTrue(t, c) ==
  AfterBonusSendAt(t, c, IF c.result = "True" THEN LastSendTime(t)
                                              ELSE last_send_time)

\* lines 73-74 and 99-100: the value send_bonus_message returned is not
\* looked at; last_send_time = time.time() follows whatever it was
AfterBonusSend(t, c) == AfterBonusSendAt(t, c, LastSendTime(t))

\* line 71-73: the first send, at once
B_Start ==
  /\ LoopRuns /\ b_pc = "ready" /\ ~b_cancel
  /\ IF running
       THEN IssueBonus(now)
       ELSE b_pc' = "done" /\ UNCHANGED <<b_call, bonus_times, queueVars>>
  /\ UNCHANGED <<b_cancel, now, last_send_time, next_interval, wake_at,
                 bonus_intervals>>
  /\ UNCHANGED <<restVars, flagVars, wVars, co, pVars, sdVars>>

\* messaging.py lines 55-57: the transport delivers; True
B_Sent ==
  /\ LoopRuns /\ b_pc = "sending" /\ ~b_cancel /\ connected
  /\ \E d \in SendDurations :
       AfterBonusSend(now + d, [b_call EXCEPT !.result = "True"])
  /\ UNCHANGED b_cancel
  /\ UNCHANGED <<restVars, flagVars, wVars, co, pVars, sdVars>>

\* messaging.py lines 58-60: FloodWaitError, asyncio.sleep(e.seconds) begins
B_FloodWait ==
  /\ LoopRuns /\ b_pc = "sending" /\ ~b_cancel /\ connected
  /\ \E w \in FloodSeconds : b_call' = [b_call EXCEPT !.flood = w]
  /\ \E d \in SendDurations : now' = now + d
  /\ b_pc' = "floodwait"
  /\ UNCHANGED <<b_cancel, last_send_time, next_interval, wake_at,
                 bonusHist>>
  /\ UNCHANGED <<restVars, pipeVars>>

\* messaging.py line 61: the sleep is over; False
B_FloodDone ==
  /\ LoopRuns /\ b_pc = "floodwait" /\ ~b_cancel
  /\ AfterBonusSend(now + 100 * b_call.flood,
                    [b_call EXCEPT !.waited = b_call.flood,
                                   !.result = "False"])
  /\ UNCHANGED b_cancel
  /\ UNCHANGED <<restVars, flagVars, wVars, co, pVars, sdVars>>

\* messaging.py lines 62-64: any other exception of the transport; False
B_Error ==
  /\ LoopRuns /\ b_pc = "sending" /\ ~b_cancel
  /\ \E d \in SendDurations :
       AfterBonusSend(now + d, [b_call EXCEPT !.result = "False"])
  /\ UNCHANGED b_cancel
  /\ UNCHANGED <<restVars, flagVars, wVars, co, pVars, sdVars>>

\* lines 95-100: the sleep is over; the send follows if the flag is set,
\* else the loop test of line 80 ends the loop
B_Wake ==
  /\ LoopRuns /\ b_pc = "sleep" /\ ~b_cancel
  /\ now' = Max(now, wake_at)
  /\ IF running
       THEN /\ Len(bonus_times) < MaxBonusSends
            /\ IssueBonus(now')
       ELSE /\ b_pc' = "done"
            /\ UNCHANGED <<b_call, bonus_times, queueVars>>
  /\ UNCHANGED <<b_cancel, last_send_time, next_interval, wake_at,
                 bonus_intervals>>
  /\ UNCHANGED <<restVars, flagVars, wVars, co, pVars, sdVars>>

\* lines 105-107: CancelledError at an await (or before the first step) is
\* re-raised; send_bonus_message does not catch it either
B_Cancelled ==
  /\ LoopRuns /\ b_pc \in {"ready", "sending", "floodwait", "sleep"}
  /\ b_cancel
  /\ b_pc' = "cancelled"
  /\ UNCHANGED <<b_cancel, now, last_send_time, next_interval, wake_at,
                 b_call, bonusHist>>
  /\ UNCHANGED <<restVars, pipeVars>>

Bonus ==
  \/ B_Start \/ B_Sent \/ B_FloodWait \/ B_FloodDone \/ B_Error \/ B_Wake
  \/ B_Cancelled

BonusOver == b_pc \in {"none", "done", "cancelled"}

(***************************************************************************)
(* Bot.run and Bot.shutdown, bot.py lines 222-296, and the signal handler  *)
(* of utils/shutdown.py.                                                   *)
(*   sd_pc run:       Bot.run awaits shutdown_event.wait() (line 232)      *)
(*         signalled: the signal handler ran; shutdown not yet entered     *)
(*         gather:    shutdown awaits the cancelled tasks (line 259)       *)
(*         join:      shutdown is blocked in worker_thread.join (line 274) *)
(*         disconnect: shutdown awaits client.disconnect() (line 286)      *)
(*         exited:    main returned and sys.exit(0) ended the process      *)
(***************************************************************************)
ProducerOver == p_pc \in {"none", "done", "cancelled"}

\* task.cancel() on the tasks of the loop that are not done
CancelCo == [k \in 1..Len(co) |->
               IF co[k].st \in {"sending", "floodwait"}
                 THEN [co[k] EXCEPT !.cancel = TRUE] ELSE co[k]]

\* utils/shutdown.py lines 18-41: SIGINT/SIGTERM; the handler cancels every
\* task of the loop, the main task (in Bot.run) included
SignalHandler ==
  /\ sd_pc = "run"
  /\ sd_pc' = "signalled"
  /\ p_cancel' = (p_cancel \/ ~ProducerOver)
  /\ b_cancel' = (b_cancel \/ ~BonusOver)
  /\ co' = CancelCo
  /\ UNCHANGED <<b_pc, now, last_send_time, next_interval, wake_at, b_call,
                 bonusHist>>
  /\ UNCHANGED <<restVars, flagVars, queueVars, wVars, p_pc, connected,
                 phases>>

\* a faulty shutdown that cancels the tasks before it clears the flags
SD_BeginCancelFirst ==
  /\ sd_pc = "signalled"
  /\ running' = FALSE
  /\ worker_running' = FALSE
  /\ p_cancel' = (p_cancel \/ ~ProducerOver)
  /\ b_cancel' = (b_cancel \/ ~BonusOver)
  /\ sd_pc' = "gather"
  /\ phases' = <<"cancel", "flags">>
  /\ UNCHANGED <<b_pc, now, last_send_time, next_interval, wake_at, b_call,
                 bonusHist>>
  /\ UNCHANGED <<restVars, queueVars, wVars, co, p_pc, connected>>

\* a faulty shutdown that leaves worker_running set
SD_BeginKeepingWorkerFlag ==
  /\ sd_pc = "signalled"
  /\ running' = FALSE
  /\ worker_running' = worker_running
  /\ p_cancel' = (p_cancel \/ ~ProducerOver)
  /\ b_cancel' = (b_cancel \/ ~BonusOver)
  /\ sd_pc' = "gather"
  /\ phases' = <<"flags", "cancel">>
  /\ UNCHANGED <<b_pc, now, last_send_time, next_interval, wake_at, b_call,
                 bonusHist>>
  /\ UNCHANGED <<restVars, queueVars, wVars, co, p_pc, connected>>

\* bot.py lines 242-255: the flags are cleared, the two loop tasks cancelled
SD_Begin ==
  /\ sd_pc = "signalled"
  /\ running' = FALSE
  /\ worker_running' = FALSE
  /\ p_cancel' = (p_cancel \/ ~ProducerOver)
  /\ b_cancel' = (b_cancel \/ ~BonusOver)
  /\ sd_pc' = "gather"
  /\ phases' = <<"flags", "cancel">>
  /\ UNCHANGED <<b_pc, now, last_send_time, next_interval, wake_at, b_call,
                 bonusHist>>
  /\ UNCHANGED <<restVars, queueVars, wVars, co, p_pc, connected>>

\* bot.py lines 257-274: the gather returns once the cancelled tasks are
\* over; then the poison value is put and the worker thread joined
SD_Poison ==
  /\ sd_pc = "gather" /\ ProducerOver /\ BonusOver
  /\ Put(None)
  /\ sd_pc' = IF w_pc # "done" THEN "join" ELSE "disconnect"
  /\ phases' = phases \o (IF w_pc # "done"
                             THEN <<"poison", "join">>
                             ELSE <<"poison", "ocr_shutdown", "disconnect">>)
  /\ UNCHANGED <<restVars, flagVars, wVars, co, pVars, connected, bVars>>

\* bot.py lines 274-286 (the OCR pool is shut down without waiting at lines
\* 279-281, then client.disconnect() is awaited): join returns because the thread ended, or after
\* 2 s.  With the flag cleared every wait of the worker is shorter than 2 s
\* except future.result(timeout=10), so only there can the join time out.
SD_Join ==
  /\ sd_pc \in {"join", "join_cancelled"} /\ w_pc \in {"done", "wait_result"}
  /\ sd_pc' = IF sd_pc = "join" THEN "disconnect" ELSE "exited"
  /\ phases' = phases \o (IF sd_pc = "join"
                             THEN <<"ocr_shutdown", "disconnect">>
                             ELSE <<"ocr_shutdown">>)
  /\ UNCHANGED <<restVars, flagVars, queueVars, wVars, co, pVars, connected,
                 bVars>>

\* bot.py lines 286-296 and main.py lines 36-55: the transport is
\* disconnected (or the wait for it times out), shutdown returns and the
\* process exits
SD_Disconnect ==
  /\ sd_pc = "disconnect"
  /\ connected' = FALSE
  /\ sd_pc' = "exited"
  /\ phases' = phases \o <<"stopped">>
  /\ UNCHANGED <<restVars, flagVars, queueVars, wVars, co, pVars, bVars>>

Shutdown == SignalHandler \/ SD_Begin \/ SD_Poison \/ SD_Join \/ SD_Disconnect

\* utils/shutdown.py lines 18-52 while Bot.shutdown runs: the handler stays
\* registered, and a further SIGINT/SIGTERM cancels every task of the loop
\* again, the main task included.  Bot.shutdown catches TimeoutError and
\* Exception around its awaits (bot.py lines 258-266 and 285-291), not
\* CancelledError: the await it is at, or the next one it reaches after the
\* blocking join, raises out of shutdown, out of Bot.run's finally and out
\* of asyncio.run (main.py lines 40-51 catch KeyboardInterrupt and
\* Exception), and the process ends without the remaining phases.
SignalAgain ==
  /\ sd_pc \in {"gather", "join", "disconnect"}
  /\ sd_pc' = IF sd_pc = "join" THEN "join_cancelled" ELSE "exited"
  /\ p_cancel' = (p_cancel \/ ~ProducerOver)
  /\ b_cancel' = (b_cancel \/ ~BonusOver)
  /\ co' = CancelCo
  /\ UNCHANGED <<b_pc, now, last_send_time, next_interval, wake_at, b_call,
                 bonusHist>>
  /\ UNCHANGED <<restVars, flagVars, queueVars, wVars, p_pc, connected,
                 phases>>

(***************************************************************************)
(* main(), main.py lines 16-36, with Bot.initialize (bot.py lines 75-136)  *)
(* and Bot.start (lines 163-220), one step per await.                      *)
(*   m_pc  load_wordlist, init_client, find_group, init_ocr, register,     *)
(*         start: the step main() takes next; run: in Bot.run;             *)
(*         failed: initialize returned False; exited: main() returned      *)
(***************************************************************************)
\* what load_wordlist may return: [] for a missing or empty file
WordlistFiles == {<<>>, <<"w1">>, <<"w1", "w2">>}

StartupUnchanged ==
  UNCHANGED <<cfgVars, solverVars, chVars, boxVars, schedVars, routerVars,
              flagVars, queueVars, co, p_cancel, bVars, paceVars,
              message_data, sent_message, delay, elapsed>>

\* bot.py lines 89-100: the wordlist is loaded if word sending is enabled;
\* without words initialize returns False
M_LoadWordlist ==
  /\ m_pc = "load_wordlist"
  /\ IF ENABLE_WORD_SENDING
       THEN \E wl \in WordlistFiles :
              /\ wordlist' = wl
              /\ m_pc' = IF wl = <<>> THEN "failed" ELSE "init_client"
       ELSE /\ wordlist' = <<>>
            /\ m_pc' = "init_client"
  /\ UNCHANGED <<group_entity, ocr_model, handler_registered, w_pc, p_pc,
                 sdVars>>
  /\ StartupUnchanged

\* bot.py lines 102-110: initialize_client returns the client, connected or
\* not (telegram/client.py lines 71-81), or None
M_InitClient ==
  /\ m_pc = "init_client"
  /\ \/ m_pc' = "find_group" /\ connected' \in BOOLEAN
     \/ m_pc' = "failed" /\ connected' = FALSE
  /\ UNCHANGED <<wordlist, group_entity, ocr_model, handler_registered,
                 w_pc, p_pc, sd_pc, phases>>
  /\ StartupUnchanged

\* bot.py lines 112-115: find_or_join_group returns the entity or None
M_FindGroup ==
  /\ m_pc = "find_group"
  /\ \/ m_pc' = "init_ocr" /\ group_entity' = Channel(GroupId)
     \/ m_pc' = "failed" /\ group_entity' = None
  /\ UNCHANGED <<wordlist, ocr_model, handler_registered, w_pc, p_pc,
                 sdVars>>
  /\ StartupUnchanged

\* bot.py lines 117-123: without an OCR model initialize only warns
M_InitOcr ==
  /\ m_pc = "init_ocr"
  /\ ocr_model' \in BOOLEAN
  /\ m_pc' = "register"
  /\ UNCHANGED <<wordlist, group_entity, handler_registered, w_pc, p_pc,
                 sdVars>>
  /\ StartupUnchanged

\* bot.py lines 125-136: the handler is registered; initialize returns True
M_Register ==
  /\ m_pc = "register"
  /\ handler_registered' = TRUE
  /\ m_pc' = "start"
  /\ UNCHANGED <<wordlist, group_entity, ocr_model, w_pc, p_pc, sdVars>>
  /\ StartupUnchanged

\* the tasks Bot.start creates, bot.py lines 177-194
BonusTask == IF ENABLE_BONUS_MESSAGES THEN "ready" ELSE "none"
WordTask == IF ENABLE_WORD_SENDING THEN "ready" ELSE "none"

\* main.py lines 33-36: Bot.start creates the worker thread and the tasks,
\* Bot.run waits for the shutdown event
M_Start ==
  /\ m_pc = "start"
  /\ w_pc' = "check"
  /\ b_pc' = BonusTask
  /\ p_pc' = WordTask
  /\ m_pc' = "run"
  /\ sd_pc' = "run"
  /\ UNCHANGED <<wordlist, group_entity, ocr_model, handler_registered,
                 connected, phases>>
  /\ UNCHANGED <<cfgVars, solverVars, chVars, boxVars, schedVars,
                 routerVars, flagVars, queueVars,
                 co, p_cancel,
                 b_cancel, now, last_send_time, next_interval, wake_at,
                 b_call, bonusHist, paceVars, message_data, sent_message,
                 delay,
                 elapsed>>

\* main.py lines 28-30: initialize returned False; main() logs and returns,
\* and the process ends
M_Return ==
  /\ m_pc = "failed"
  /\ m_pc' = "exited"
  /\ sd_pc' = "exited"
  /\ UNCHANGED <<wordlist, group_entity, ocr_model, handler_registered,
                 w_pc, p_pc, connected, phases>>
  /\ StartupUnchanged

Main ==
  \/ M_LoadWordlist \/ M_InitClient \/ M_FindGroup \/ M_InitOcr
  \/ M_Register \/ M_Start \/ M_Return

(***************************************************************************)
(* handle_new_message, handlers/message_handler.py lines 17-209, one step  *)
(* per await.  A text is the sequence of its words; an event carries what  *)
(* the handler reads of it.                                                *)
(*   handlers[k].pc  start: called, reconnect: in client.connect(),        *)
(*                   get_sender: in event.get_sender(), dropped: returned  *)
(*                   before the sender was known, filtered: returned at    *)
(*                   the sender filter, done: ran to the end, error:       *)
(*                   raised                                                *)
(*   tasks           the asyncio.create_task calls, with the event's index *)
(***************************************************************************)
CHALLENGE_KEYWORD == "chalesh"
BOX_KEYWORD == "jabeh"

\* keyword in message_text, lines 152 and 183
Contains(message_text, keyword) ==
  \E i \in 1..Len(message_text) : message_text[i] = keyword

\* the large-group prefix of line 79, scaled to the identifiers used here
SUPERGROUP_PREFIX == 1000

\* normalize_chat_id, lines 69-83 (chat_id is never None here)
normalize_chat_id(chat_id) ==
  IF chat_id < 0 /\ -chat_id > SUPERGROUP_PREFIX
    THEN -chat_id - SUPERGROUP_PREFIX
    ELSE IF chat_id < 0 THEN -chat_id ELSE chat_id

\* the events delivered: from the target group (its identifier with the
\* large-group prefix), from another large group, and from a chat whose
\* raw identifier differs from the group's only in sign
ChatIds == {-(SUPERGROUP_PREFIX + GroupId), -(SUPERGROUP_PREFIX + GroupId + 1),
            -GroupId}
Senders == {None, [username |-> "boss"], [username |-> "other"]}
Usernames == {"", "boss"}
Texts == {<<>>, <<"salam">>, <<"chalesh">>, <<"jabeh">>,
          <<"chalesh", "jabeh">>}
Events ==
  [chat_id : ChatIds, sender : Senders, message : Texts, photo : BOOLEAN,
   document : BOOLEAN]

\* lines 92-98: the event is from the target group
FromTargetGroup(e) ==
  /\ group_entity # None
  /\ normalize_chat_id(e.chat_id) = normalize_chat_id(group_entity.id)

\* a faulty filter that lets an event without sender pass
SenderAcceptedWhenMissing(e) ==
  MESSAGE_SENDER_USERNAME # ""
    => (e.sender = None \/ e.sender.username = MESSAGE_SENDER_USERNAME)

\* lines 103-126: the sender passes the filter
sender_username(e) == IF e.sender = None THEN "" ELSE e.sender.username

SenderAccepted(e) ==
  MESSAGE_SENDER_USERNAME # ""
    => (sender_username(e) # ""
        /\ sender_username(e) = MESSAGE_SENDER_USERNAME)

\* a faulty media test that looks at the photo only
has_photo_only(e) == e.photo

\* line 139
has_photo(e) == e.photo \/ e.document

ChallengeTask(k) == [kind |-> "challenge", event |-> k]
BoxTask(k) == [kind |-> "box", event |-> k]

\* a faulty dispatch with "if has_photo" in place of "elif has_photo"
ChallengeTasksTwoTests(e, k) ==
  IF ENABLE_MATH_CHALLENGES
    THEN (IF Contains(e.message, CHALLENGE_KEYWORD)
            THEN <<ChallengeTask(k)>> ELSE <<>>)
         \o (IF has_photo(e) THEN <<ChallengeTask(k)>> ELSE <<>>)
    ELSE <<>>

\* lines 151-178: the challenge tasks created for event k
ChallengeTasks(e, k) ==
  IF ENABLE_MATH_CHALLENGES
    THEN IF Contains(e.message, CHALLENGE_KEYWORD) THEN <<ChallengeTask(k)>>
         ELSE IF has_photo(e) THEN <<ChallengeTask(k)>>
         ELSE <<>>
    ELSE <<>>

\* a faulty dispatch that returns after it created a challenge task
BoxTasksUnlessChallenge(e, k) ==
  IF ENABLE_BOX_MESSAGES /\ ChallengeTasks(e, k) = <<>>
    THEN IF Contains(e.message, BOX_KEYWORD) THEN <<BoxTask(k)>> ELSE <<>>
    ELSE <<>>

\* lines 182-199: the button tasks created for event k
BoxTasks(e, k) ==
  IF ENABLE_BOX_MESSAGES
    THEN IF Contains(e.message, BOX_KEYWORD) THEN <<BoxTask(k)>> ELSE <<>>
    ELSE <<>>

SetHandler(k, pc) == handlers' = [handlers EXCEPT ![k].pc = pc]

RouterUnchanged ==
  UNCHANGED <<cfgVars, solverVars, chVars, boxVars, schedVars, wordlist,
              startVars, flagVars,
              queueVars, wVars, co, pVars, sd_pc, phases, bVars>>

\* the transport calls the registered handler with a new event, one of E,
\* while fewer than max have been delivered; late: the event arrives after
\* the shutdown signal (the handler is never removed, bot.py lines 126-129)
Deliver(E, max) ==
  /\ LoopRuns /\ handler_registered /\ m_pc = "run"
  /\ Len(handlers) < max
  /\ \E e \in E :
       handlers' = Append(handlers, [ev |-> e, pc |-> "start",
                                     late |-> sd_pc # "run"])
  /\ UNCHANGED <<tasks, connected>>
  /\ RouterUnchanged

R_Deliver == Deliver(Events, MaxEvents)

\* lines 92-98 with the await of line 105: an event of another chat is
\* dropped, else event.get_sender() is awaited
AfterConnected(k) ==
  SetHandler(k, IF FromTargetGroup(handlers[k].ev) THEN "get_sender"
                                                    ELSE "dropped")

\* lines 38-98: the connection test, then the group test
R_Begin(k) ==
  /\ LoopRuns /\ handlers[k].pc = "start"
  /\ IF connected THEN AfterConnected(k) ELSE SetHandler(k, "reconnect")
  /\ UNCHANGED <<tasks, connected>>
  /\ RouterUnchanged

\* lines 50-53: client.connect() succeeded
R_Reconnected(k) ==
  /\ LoopRuns /\ handlers[k].pc = "reconnect"
  /\ connected' = TRUE
  /\ AfterConnected(k)
  /\ UNCHANGED tasks
  /\ RouterUnchanged

\* lines 54-56: client.connect() raised; the handler returns
R_ReconnectFailed(k) ==
  /\ LoopRuns /\ handlers[k].pc = "reconnect"
  /\ SetHandler(k, "dropped")
  /\ UNCHANGED <<tasks, connected>>
  /\ RouterUnchanged

\* lines 105-202: the sender is known; the filter, then the two dispatches
R_Dispatch(k) ==
  /\ LoopRuns /\ handlers[k].pc = "get_sender"
  /\ tasks' = IF SenderAccepted(handlers[k].ev)
                THEN tasks \o ChallengeTasks(handlers[k].ev, k)
                           \o BoxTasks(handlers[k].ev, k)
                ELSE tasks
  /\ SetHandler(k, IF SenderAccepted(handlers[k].ev) THEN "done"
                                                     ELSE "filtered")
  /\ UNCHANGED connected
  /\ RouterUnchanged

\* lines 204-209: event.get_sender() raised; the handler logs and returns
R_SenderError(k) ==
  /\ LoopRuns /\ handlers[k].pc = "get_sender"
  /\ SetHandler(k, "error")
  /\ UNCHANGED <<tasks, connected>>
  /\ RouterUnchanged

\* the connection to the transport drops while the bot runs
ConnectionLost ==
  /\ sd_pc = "run" /\ connected
  /\ connected' = FALSE
  /\ UNCHANGED tasks /\ UNCHANGED handlers
  /\ RouterUnchanged

Router ==
  \/ R_Deliver
  \/ \E k \in 1..Len(handlers) :
       \/ R_Begin(k) \/ R_Reconnected(k) \/ R_ReconnectFailed(k)
       \/ R_Dispatch(k) \/ R_SenderError(k)
  \/ ConnectionLost

(***************************************************************************)
(* parse_and_solve_math, ocr/math_solver.py lines 10-144.  A text is a     *)
(* sequence of characters.  The texts drawn hold no '.', no '//' and no    *)
(* '**', so the decimal part of the pattern never applies.  A float is     *)
(* modelled as the exact fraction [n, d].                                  *)
(***************************************************************************)
MaxOperand == 12

\* the operands of the expressions with two operators
MaxTerm == 3

DigitChars == <<"0", "1", "2", "3", "4", "5", "6", "7", "8", "9">>

IsDigit(c) == \E d \in 1..10 : DigitChars[d] = c

DigitValue(c) == (CHOOSE d \in 1..10 : DigitChars[d] = c) - 1

OperatorChars == {"+", "-", "*", "/"}

RECURSIVE Digits(_)
Digits(n) ==
  IF n < 10 THEN <<DigitChars[n + 1]>>
  ELSE Digits(n \div 10) \o <<DigitChars[(n % 10) + 1]>>

\* str(a) of an integer
NumberText(a) == IF a < 0 THEN <<"-">> \o Digits(-a) ELSE Digits(a)

Forms == {"tight", "spaced", "question", "paren", "noise"}

Parenthesised(s) == <<"(">> \o s \o <<")">>

\* the text of a challenge: "a+b", "a + b", "a + b = ?", "(a) + (b)", and
\* "a k + b" with a letter the OCR read between operand and operator
ExprText(e) ==
  LET a == NumberText(e.a)
      b == NumberText(e.b)
  IN  CASE e.form = "tight" -> a \o <<e.op>> \o b
        [] e.form = "spaced" -> a \o <<" ", e.op, " ">> \o b
        [] e.form = "question" ->
             a \o <<" ", e.op, " ">> \o b \o <<" ", "=", " ", "?">>
        [] e.form = "paren" ->
             Parenthesised(a) \o <<" ", e.op, " ">> \o Parenthesised(b)
        [] e.form = "noise" -> a \o <<" ", "k", " ", e.op, " ">> \o b

Exprs ==
  [a : -MaxOperand..MaxOperand, op : OperatorChars,
   b : -MaxOperand..MaxOperand, form : Forms]

\* the text of an expression with two operators: "a+b*c", "a + b * c",
\* "a + b * c = ?", "(a) + (b) * (c)"
ExprText3(e) ==
  LET a == NumberText(e.a)
      b == NumberText(e.b)
      c == NumberText(e.c)
  IN  CASE e.form = "tight" -> a \o <<e.op>> \o b \o <<e.op2>> \o c
        [] e.form = "spaced" ->
             a \o <<" ", e.op, " ">> \o b \o <<" ", e.op2, " ">> \o c
        [] e.form = "question" ->
             a \o <<" ", e.op, " ">> \o b \o <<" ", e.op2, " ">> \o c
               \o <<" ", "=", " ", "?">>
        [] e.form = "paren" ->
             Parenthesised(a) \o <<" ", e.op, " ">> \o Parenthesised(b)
               \o <<" ", e.op2, " ">> \o Parenthesised(c)

Exprs3 ==
  [a : -MaxTerm..MaxTerm, op : OperatorChars, b : -MaxTerm..MaxTerm,
   op2 : OperatorChars, c : -MaxTerm..MaxTerm,
   form : {"tight", "spaced", "question", "paren"}]

Fraction(n, d) == [n |-> n, d |-> d]

\* str.strip()
RECURSIVE Strip(_)
Strip(s) ==
  IF s = <<>> THEN s
  ELSE IF Head(s) = " " THEN Strip(Tail(s))
  ELSE IF s[Len(s)] = " " THEN Strip(SubSeq(s, 1, Len(s) - 1))
  ELSE s

\* lines 49-54: operators normalised, '=' and '?' removed, strip()
ReplaceChar(c) ==
  CASE c \in {"x", "X"} -> "*"
    [] c = "×" -> "*"
    [] c = "÷" -> "/"
    [] OTHER -> c

\* the end of the longest run of digits that starts at i (i - 1 if none)
RECURSIVE DigitsEnd(_, _)
DigitsEnd(s, i) ==
  IF i <= Len(s) /\ IsDigit(s[i]) THEN DigitsEnd(s, i + 1) ELSE i - 1

\* the first position from i on that holds no space
RECURSIVE SkipSpaces(_, _)
SkipSpaces(s, i) ==
  IF i <= Len(s) /\ s[i] = " " THEN SkipSpaces(s, i + 1) ELSE i

\* float() of the digits s[i..j]
RECURSIVE Number(_, _, _)
Number(s, i, j) ==
  IF i > j THEN 0 ELSE 10 * Number(s, i, j - 1) + DigitValue(s[j])

\* the markers of the pattern of line 25
BeginArray ==
  <<"\\", "b", "e", "g", "i", "n", "{", "a", "r", "r", "a", "y", "}">>
EndArray == <<"\\", "e", "n", "d", "{", "a", "r", "r", "a", "y", "}">>

\* the first position from i on where pat occurs in s, 0 if there is none
RECURSIVE Find(_, _, _)
Find(s, pat, i) ==
  IF i + Len(pat) - 1 > Len(s) THEN 0
  ELSE IF \A k \in 1..Len(pat) : s[i + k - 1] = pat[k] THEN i
  ELSE Find(s, pat, i + 1)

\* re.search of \begin{array}.*?\end{array} with DOTALL: the leftmost
\* opening marker and the first closing marker after it
ArrayBlock(s) ==
  LET b == Find(s, BeginArray, 1)
      e == IF b = 0 THEN 0 ELSE Find(s, EndArray, b + Len(BeginArray))
  IN  IF e = 0 THEN None
      ELSE [first |-> b, last |-> e + Len(EndArray) - 1]

\* line 29, re.findall of \{(\d+)\} on the whole text, and line 32
RECURSIVE BraceNumbers(_, _)
BraceNumbers(s, i) ==
  IF i > Len(s) THEN <<>>
  ELSE LET m == DigitsEnd(s, i + 1)
       IN  IF /\ s[i] = "{" /\ m >= i + 1
              /\ m + 1 <= Len(s) /\ s[m + 1] = "}"
             THEN <<Number(s, i + 1, m)>> \o BraceNumbers(s, m + 2)
             ELSE BraceNumbers(s, i + 1)

\* the texts with array markup: up to MaxNumbers numbers in braces, each up
\* to MaxCell or the two-digit 10 + MaxCell
MaxNumbers == 3
MaxCell == 6
Cells == (0..MaxCell) \cup {10 + MaxCell}

ArrayForms == {"block", "dollars", "outside"}
ArrayExprForms == {"block_expr", "expr_block", "unclosed"}

ArrayExprs ==
  LET numss == UNION {[1..n -> Cells] : n \in 0..MaxNumbers}
  IN  [nums : numss, form : ArrayForms, a : {8}, op : {"+"}, b : {2}]
      \cup [nums : numss, form : ArrayExprForms, a : {8},
             op : OperatorChars, b : {2}]

RECURSIVE Braced(_)
Braced(nums) ==
  IF nums = <<>> THEN <<>>
  ELSE <<"{">> \o NumberText(Head(nums)) \o <<"}">> \o Braced(Tail(nums))

\* the text of a challenge with array markup: the numbers in the block,
\* the block between $$ markers, the numbers after an empty block, the
\* block followed or preceded by "a op b", and the opening marker without
\* the closing one, followed by "a op b"
ArrayText(e) ==
  LET block == BeginArray \o Braced(e.nums) \o EndArray
      ex == NumberText(e.a) \o <<e.op>> \o NumberText(e.b)
  IN  CASE e.form = "block" -> block
        [] e.form = "dollars" -> <<"$", "$">> \o block \o <<"$", "$">>
        [] e.form = "outside" -> BeginArray \o EndArray \o Braced(e.nums)
        [] e.form = "block_expr" -> block \o <<" ">> \o ex
        [] e.form = "expr_block" -> ex \o <<" ">> \o block
        [] e.form = "unclosed" ->
             BeginArray \o Braced(e.nums) \o <<" ">> \o ex

\* sum(nums)
RECURSIVE Sum(_)
Sum(nums) == IF nums = <<>> THEN 0 ELSE Head(nums) + Sum(Tail(nums))

\* a faulty branch that answers for exactly two numbers only
ArrayAnswerForTwoOnly(nums) ==
  IF Len(nums) = 2 THEN Fraction(nums[1] + nums[2], 1) ELSE None

\* lines 30-44: the answer of the array branch for the numbers found, None
\* if the branch is left without a return
ArrayAnswer(nums) ==
  IF Len(nums) = 2 THEN Fraction(nums[1] + nums[2], 1)
  ELSE IF Len(nums) >= 2 THEN Fraction(Sum(nums), 1)
  ELSE None

\* line 52: re.sub of \$\$
RECURSIVE RemoveDollars(_)
RemoveDollars(s) ==
  IF Len(s) < 2 THEN s
  ELSE IF s[1] = "$" /\ s[2] = "$" THEN RemoveDollars(SubSeq(s, 3, Len(s)))
  ELSE <<Head(s)>> \o RemoveDollars(Tail(s))

\* line 53: re.sub of the array pattern
RECURSIVE RemoveArrays(_)
RemoveArrays(s) ==
  IF ArrayBlock(s) = None THEN s
  ELSE SubSeq(s, 1, ArrayBlock(s).first - 1)
         \o RemoveArrays(SubSeq(s, ArrayBlock(s).last + 1, Len(s)))

Normalise(s) ==
  Strip(RemoveArrays(RemoveDollars(
    [i \in 1..Len(SelectSeq(s, LAMBDA c : c \notin {"=", "?"})) |->
       ReplaceChar(SelectSeq(s, LAMBDA c : c \notin {"=", "?"})[i])])))

\* the pattern (\d+)\s*([+\-*/])\s*(\d+) matched at position i: an operand
\* has no sign in the pattern
MatchAt(s, i) ==
  LET j == DigitsEnd(s, i)
      k == SkipSpaces(s, j + 1)
      l == SkipSpaces(s, k + 1)
      m == DigitsEnd(s, l)
  IN  IF /\ j >= i
         /\ k <= Len(s) /\ s[k] \in OperatorChars
         /\ m >= l
        THEN [num1 |-> Number(s, i, j), operator |-> s[k],
              num2 |-> Number(s, l, m)]
        ELSE None

\* re.search: the match at the leftmost position that has one
Search(s) ==
  IF \E i \in 1..Len(s) : MatchAt(s, i) # None
    THEN MatchAt(s, CHOOSE i \in 1..Len(s) :
                      /\ MatchAt(s, i) # None
                      /\ \A h \in 1..(i - 1) : MatchAt(s, h) = None)
    ELSE None

\* a faulty solver without the test of the divisor
ApplyWithoutZeroTest(num1, operator, num2) ==
  CASE operator = "+" -> Fraction(num1 + num2, 1)
    [] operator = "-" -> Fraction(num1 - num2, 1)
    [] operator = "*" -> Fraction(num1 * num2, 1)
    [] operator = "/" -> Fraction(num1, num2)

\* lines 74-89 and 110-124
Apply(num1, operator, num2) ==
  CASE operator = "+" -> Fraction(num1 + num2, 1)
    [] operator = "-" -> Fraction(num1 - num2, 1)
    [] operator = "*" -> Fraction(num1 * num2, 1)
    [] operator = "/" -> IF num2 = 0 THEN None ELSE Fraction(num1, num2)

\* the arithmetic of Python on two values
ApplyValues(x, operator, y) ==
  CASE operator = "+" -> Fraction(x.n * y.d + y.n * x.d, x.d * y.d)
    [] operator = "-" -> Fraction(x.n * y.d - y.n * x.d, x.d * y.d)
    [] operator = "*" -> Fraction(x.n * y.n, x.d * y.d)
    [] operator = "/" -> Fraction(x.n * y.d, x.d * y.n)

\* Python's reading of an expression from position i on: a factor is a
\* number, a signed factor or a parenthesised expression; a term is a chain
\* of factors with * and /; an expression a chain of terms with + and -.
\* Each gives the value and the position after it, or None where Python
\* raises (SyntaxError, ZeroDivisionError).
RECURSIVE EvalExpr(_, _)
RECURSIVE EvalTerm(_, _)
RECURSIVE EvalFactor(_, _)
RECURSIVE ExprRest(_, _, _)
RECURSIVE TermRest(_, _, _)

EvalFactor(s, i) ==
  LET j == SkipSpaces(s, i)
  IN  IF j > Len(s) THEN None
      ELSE IF s[j] = "-"
        THEN LET f == EvalFactor(s, j + 1)
             IN  IF f = None THEN None
                 ELSE [value |-> Fraction(-f.value.n, f.value.d),
                       next |-> f.next]
      ELSE IF s[j] = "+" THEN EvalFactor(s, j + 1)
      ELSE IF s[j] = "("
        THEN LET e == EvalExpr(s, j + 1)
             IN  IF e = None THEN None
                 ELSE IF /\ SkipSpaces(s, e.next) <= Len(s)
                         /\ s[SkipSpaces(s, e.next)] = ")"
                   THEN [value |-> e.value, next |-> SkipSpaces(s, e.next) + 1]
                   ELSE None
      ELSE IF IsDigit(s[j])
        THEN LET m == DigitsEnd(s, j)
             IN  IF m > j /\ s[j] = "0" /\ Number(s, j, m) # 0
                   THEN None   \* a leading zero is a SyntaxError
                   ELSE [value |-> Fraction(Number(s, j, m), 1),
                         next |-> m + 1]
      ELSE None

TermRest(s, i, acc) ==
  LET j == SkipSpaces(s, i)
  IN  IF j <= Len(s) /\ s[j] \in {"*", "/"}
        THEN LET f == EvalFactor(s, j + 1)
             IN  IF f = None THEN None
                 ELSE IF s[j] = "/" /\ f.value.n = 0 THEN None
                 ELSE TermRest(s, f.next, ApplyValues(acc, s[j], f.value))
        ELSE [value |-> acc, next |-> j]

EvalTerm(s, i) ==
  LET f == EvalFactor(s, i)
  IN  IF f = None THEN None ELSE TermRest(s, f.next, f.value)

ExprRest(s, i, acc) ==
  LET j == SkipSpaces(s, i)
  IN  IF j <= Len(s) /\ s[j] \in {"+", "-"}
        THEN LET t == EvalTerm(s, j + 1)
             IN  IF t = None THEN None
                 ELSE ExprRest(s, t.next, ApplyValues(acc, s[j], t.value))
        ELSE [value |-> acc, next |-> j]

EvalExpr(s, i) ==
  LET t == EvalTerm(s, i)
  IN  IF t = None THEN None ELSE ExprRest(s, t.next, t.value)

\* lines 130-138: eval() of the cleaned text if it holds an operator; what
\* Python raises is caught and gives None
PyEval(s) ==
  IF \A i \in 1..Len(s) : s[i] \notin OperatorChars THEN None
  ELSE LET e == EvalExpr(s, 1)
       IN  IF e = None THEN None
           ELSE IF SkipSpaces(s, e.next) = Len(s) + 1 THEN e.value
           ELSE None

\* line 95: every character but digits, operators, '.', parentheses and
\* spaces removed
Cleaned(s) ==
  Strip(SelectSeq(s, LAMBDA c : IsDigit(c) \/ c \in OperatorChars
                                  \/ c \in {".", "(", ")", " "}))

\* lines 46-141: the steps after the array branch
LaterSteps(t) ==
  LET s == Normalise(t)
      match == Search(s)
  IN  IF match # None
        THEN Apply(match.num1, match.operator, match.num2)
        ELSE LET cleaned == Cleaned(s)
                 simple_match == Search(cleaned)
             IN  IF cleaned = <<>> THEN None
                 ELSE IF simple_match # None
                   THEN Apply(simple_match.num1, simple_match.operator,
                              simple_match.num2)
                   ELSE PyEval(cleaned)

parse_and_solve_math(t) ==
  IF t = <<>> THEN None
  ELSE IF /\ ArrayBlock(t) # None
          /\ ArrayAnswer(BraceNumbers(t, 1)) # None
    THEN ArrayAnswer(BraceNumbers(t, 1))
  ELSE LaterSteps(t)

\* one call
S_Solve ==
  /\ text # <<>> /\ result = Unbound
  /\ result' = parse_and_solve_math(text)
  /\ UNCHANGED <<expr, text>>
  /\ UNCHANGED <<cfgVars, chVars, boxVars, schedVars, wordlist, startVars,
                 routerVars, pipeVars, bVars>>

(***************************************************************************)
(* process_math_challenge, handlers/math_challenge.py lines 17-240, one    *)
(* step per await, and the OCR pool of ocr/model.py line 51.  ct[t] is the *)
(* state of task t of tasks once it has taken its first step:              *)
(*   pc      reconnect, download, download_sync, download_retry, ocr,      *)
(*           reply, reply_sync, reply_retry while it runs, and how it      *)
(*           ended: reconnect_failed, no_image, no_ocr, no_text,           *)
(*           no_answer, replied, error, cancelled                          *)
(*   file    the temporary file of line 89 exists                          *)
(*   created the temporary file was created                                *)
(*   ocr_done the recognize call has returned                              *)
(*   extracted_text the text taken from what recognize returned            *)
(*   replies the replies delivered to the message                          *)
(***************************************************************************)
MaxChallenges == 3

\* ThreadPoolExecutor(max_workers=2), ocr/model.py line 51
max_workers == 2

TaskStarted(t) == t \in DOMAIN ct

TaskEvent(t) == handlers[tasks[t].event].ev

NewTask(pc) ==
  [pc |-> pc, file |-> FALSE, created |-> FALSE, ocr_done |-> FALSE,
   extracted_text |-> Unbound, replies |-> 0]

SetTask(t, r) ==
  ct' = IF TaskStarted(t) THEN [ct EXCEPT ![t] = r] ELSE ct @@ (t :> r)

ChallengeEnded ==
  {"reconnect_failed", "no_image", "no_ocr", "no_text", "no_answer",
   "replied", "error", "cancelled"}

ChallengeAwaits ==
  {"reconnect", "download", "download_sync", "download_retry", "ocr",
   "reply", "reply_sync", "reply_retry"}

\* a faulty cleanup that removes the file only after a reply
FinallyAfterReplyOnly(r, pc) ==
  [r EXCEPT !.pc = pc, !.file = IF pc = "replied" THEN FALSE ELSE r.file]

\* lines 220-240: the finally block removes the file; the task ends as pc
Finally(r, pc) == [r EXCEPT !.pc = pc, !.file = FALSE]

\* lines 63-96: without photo and document the task returns; else the
\* temporary file is created and the download awaited
AfterConnection(t) ==
  IF ~TaskEvent(t).photo /\ ~TaskEvent(t).document
    THEN NewTask("no_image")
    ELSE [NewTask("download") EXCEPT !.file = TRUE, !.created = TRUE]

ChallengeUnchanged ==
  UNCHANGED <<cfgVars, solverVars, boxVars, schedVars, wordlist, startVars,
              routerVars, flagVars,
              queueVars, wVars, co, pVars, sd_pc, phases, bVars>>

\* lines 41-61 and 63-96: the first step of the task
C_Start(t) ==
  /\ LoopRuns /\ tasks[t].kind = "challenge" /\ ~TaskStarted(t)
  /\ SetTask(t, IF connected THEN AfterConnection(t)
                             ELSE NewTask("reconnect"))
  /\ UNCHANGED <<connected, ocr_queue, ocr_running>>
  /\ ChallengeUnchanged

\* lines 55-56: client.connect() succeeded
C_Reconnected(t) ==
  /\ LoopRuns /\ TaskStarted(t) /\ ct[t].pc = "reconnect"
  /\ connected' = TRUE
  /\ SetTask(t, AfterConnection(t))
  /\ UNCHANGED <<ocr_queue, ocr_running>>
  /\ ChallengeUnchanged

\* lines 57-61: client.connect() raised; the task returns
C_ReconnectFailed(t) ==
  /\ LoopRuns /\ TaskStarted(t) /\ ct[t].pc = "reconnect"
  /\ SetTask(t, NewTask("reconnect_failed"))
  /\ UNCHANGED <<connected, ocr_queue, ocr_running>>
  /\ ChallengeUnchanged

\* line 114: the OCR engine and its pool exist (initialize_ocr_model
\* returns both or neither, ocr/model.py lines 16-65)
OcrAvailable(t) == ocr_model

\* lines 96-133: the download (or its retry) returned.  Without OCR engine
\* the task returns; else recognize is submitted to the pool and awaited.
C_Downloaded(t) ==
  /\ LoopRuns /\ TaskStarted(t) /\ ct[t].pc \in {"download", "download_retry"}
  /\ IF OcrAvailable(t)
       THEN /\ SetTask(t, [ct[t] EXCEPT !.pc = "ocr"])
            /\ ocr_queue' = Append(ocr_queue, t)
       ELSE /\ SetTask(t, Finally(ct[t], "no_ocr"))
            /\ UNCHANGED ocr_queue
  /\ UNCHANGED <<connected, ocr_running>>
  /\ ChallengeUnchanged

\* lines 98-101: the first download raised PersistentTimestampOutdatedError;
\* client.catch_up() is awaited
C_DownloadOutdated(t) ==
  /\ LoopRuns /\ TaskStarted(t) /\ ct[t].pc = "download"
  /\ SetTask(t, [ct[t] EXCEPT !.pc = "download_sync"])
  /\ UNCHANGED <<connected, ocr_queue, ocr_running>>
  /\ ChallengeUnchanged

\* lines 101-104 and 203-206: catch_up() returned; the call is made again
C_Synced(t) ==
  /\ LoopRuns /\ TaskStarted(t) /\ ct[t].pc \in {"download_sync", "reply_sync"}
  /\ SetTask(t, [ct[t] EXCEPT !.pc = IF ct[t].pc = "download_sync"
                                       THEN "download_retry"
                                       ELSE "reply_retry"])
  /\ UNCHANGED <<connected, ocr_queue, ocr_running>>
  /\ ChallengeUnchanged

\* lines 220-240: an await other than recognize raised (the download, its
\* retry, catch_up, the reply, its retry); the finally block runs and the
\* outer handler logs the exception
C_Raised(t) ==
  /\ LoopRuns /\ TaskStarted(t)
  /\ ct[t].pc \in {"download", "download_sync", "download_retry", "reply",
                   "reply_sync", "reply_retry"}
  /\ SetTask(t, Finally(ct[t], "error"))
  /\ UNCHANGED <<connected, ocr_queue, ocr_running>>
  /\ ChallengeUnchanged

\* what recognize gives: an exception, or a text (empty, without an
\* expression, an expression, a division by zero)
OcrTexts ==
  {<<>>, <<" ">>, <<"(", ")">>,
   ExprText([a |-> 2, op |-> "+", b |-> 3, form |-> "question"]),
   ExprText([a |-> 6, op |-> "/", b |-> 0, form |-> "tight"])}

\* a faulty task that replies whatever the parser gives
AfterOcrWithoutParser(r, extracted_text) ==
  IF Strip(extracted_text) = <<>>
    THEN Finally([r EXCEPT !.extracted_text = <<>>], "no_text")
    ELSE [r EXCEPT !.pc = "reply", !.extracted_text = Strip(extracted_text)]

\* lines 135-218: the text is stripped; an empty text and a text the
\* parser gives no value for end the task; else the reply is awaited
AfterOcr(r, extracted_text) ==
  IF Strip(extracted_text) = <<>>
    THEN Finally([r EXCEPT !.extracted_text = <<>>], "no_text")
  ELSE IF parse_and_solve_math(Strip(extracted_text)) = None
    THEN Finally([r EXCEPT !.extracted_text = Strip(extracted_text)],
                 "no_answer")
  ELSE [r EXCEPT !.pc = "reply", !.extracted_text = Strip(extracted_text)]

\* lines 129-218: the await of run_in_executor returns the text or raises
C_OcrResult(t) ==
  /\ LoopRuns /\ TaskStarted(t) /\ ct[t].pc = "ocr" /\ ct[t].ocr_done
  /\ \/ SetTask(t, Finally(ct[t], "error"))
     \/ \E extracted_text \in OcrTexts :
          SetTask(t, AfterOcr(ct[t], extracted_text))
  /\ UNCHANGED <<connected, ocr_queue, ocr_running>>
  /\ ChallengeUnchanged

\* lines 198-199 and 206-218: the reply (or its retry) was delivered
C_Replied(t) ==
  /\ LoopRuns /\ TaskStarted(t) /\ ct[t].pc \in {"reply", "reply_retry"}
  /\ connected
  /\ SetTask(t, Finally([ct[t] EXCEPT !.replies = @ + 1], "replied"))
  /\ UNCHANGED <<connected, ocr_queue, ocr_running>>
  /\ ChallengeUnchanged

\* lines 200-203: the first reply raised PersistentTimestampOutdatedError
\* and was not delivered; client.catch_up() is awaited
C_ReplyOutdated(t) ==
  /\ LoopRuns /\ TaskStarted(t) /\ ct[t].pc = "reply"
  /\ SetTask(t, [ct[t] EXCEPT !.pc = "reply_sync"])
  /\ UNCHANGED <<connected, ocr_queue, ocr_running>>
  /\ ChallengeUnchanged

\* utils/shutdown.py lines 37-39 with lines 220-232: the signal handler
\* cancelled the task, one of the tasks of the loop when the signal came
\* (Bot.shutdown cancels the two loop tasks only, bot.py lines 248-255);
\* CancelledError is raised at its await, the finally block runs, and a
\* recognize call not yet taken by a thread is dropped
C_Cancelled(t) ==
  /\ LoopRuns /\ sd_pc # "run" /\ ~handlers[tasks[t].event].late
  /\ TaskStarted(t) /\ ct[t].pc \in ChallengeAwaits
  /\ SetTask(t, Finally(ct[t], "cancelled"))
  /\ ocr_queue' = SelectSeq(ocr_queue, LAMBDA u : u # t)
  /\ UNCHANGED <<connected, ocr_running>>
  /\ ChallengeUnchanged

\* a faulty pool that starts a thread for every call
O_TakeUnbounded ==
  /\ Alive /\ ocr_queue # <<>>
  /\ ocr_running' = ocr_running \cup {Head(ocr_queue)}
  /\ ocr_queue' = Tail(ocr_queue)
  /\ UNCHANGED <<ct, connected>>
  /\ ChallengeUnchanged

\* ocr/model.py line 51: one of the at most max_workers threads of the pool
\* takes the oldest call and runs recognize
O_Take ==
  /\ Alive /\ ocr_queue # <<>>
  /\ Cardinality(ocr_running) < max_workers
  /\ ocr_running' = ocr_running \cup {Head(ocr_queue)}
  /\ ocr_queue' = Tail(ocr_queue)
  /\ UNCHANGED <<ct, connected>>
  /\ ChallengeUnchanged

\* recognize returns (or raises) in its thread
O_Return(t) ==
  /\ Alive /\ t \in ocr_running
  /\ ocr_running' = ocr_running \ {t}
  /\ ct' = [ct EXCEPT ![t].ocr_done = TRUE]
  /\ UNCHANGED <<ocr_queue, connected>>
  /\ ChallengeUnchanged

Challenge ==
  \/ \E t \in 1..Len(tasks) :
       \/ C_Start(t) \/ C_Reconnected(t) \/ C_ReconnectFailed(t)
       \/ C_Downloaded(t) \/ C_DownloadOutdated(t) \/ C_Synced(t)
       \/ C_Raised(t) \/ C_OcrResult(t) \/ C_Replied(t)
       \/ C_ReplyOutdated(t) \/ C_Cancelled(t) \/ O_Return(t)
  \/ O_Take

(***************************************************************************)
(* process_box_message, handlers/box_handler.py lines 12-270, as far as    *)
(* the other parts can see it: the task runs, and ends with its buttons    *)
(* tried or with an exception that line 261 catches and logs.              *)
(***************************************************************************)
X_Start(t) ==
  /\ LoopRuns /\ tasks[t].kind = "box" /\ ~TaskStarted(t)
  /\ SetTask(t, NewTask("box_run"))
  /\ UNCHANGED <<connected, ocr_queue, ocr_running>>
  /\ ChallengeUnchanged

X_End(t) ==
  /\ LoopRuns /\ TaskStarted(t) /\ ct[t].pc = "box_run"
  /\ \E pc \in {"box_done", "box_error"} : SetTask(t, NewTask(pc))
  /\ UNCHANGED <<connected, ocr_queue, ocr_running>>
  /\ ChallengeUnchanged

Box == \E t \in 1..Len(tasks) : X_Start(t) \/ X_End(t)

(***************************************************************************)
(* handlers/box_handler.py, process_box_message on one message, button by  *)
(* button.  A button is the set of attributes the code tests with hasattr: *)
(* a callback button carries data, a URL button carries url, and the other *)
(* types of the transport (switch-inline, game, buy) carry neither; none   *)
(* of the button types of reply_markup.rows has an attribute 'button'.     *)
(* Every activation attempt (message.click, GetBotCallbackAnswerRequest)   *)
(* is recorded in box.clicks with its method, the position of the button   *)
(* it addresses (row, button), the position the loop is at (at) and        *)
(* whether it succeeded (ok).  position is the place of the inner for loop *)
(* in its row; button_index is the counter of lines 81 and 227.            *)
(***************************************************************************)
MaxButtons == 2

CallbackButton == [type |-> "callback", data |-> TRUE, url |-> FALSE,
                   nested |-> FALSE]
UrlButton == [type |-> "url", data |-> FALSE, url |-> TRUE, nested |-> FALSE]
OtherButton == [type |-> "other", data |-> FALSE, url |-> FALSE,
                nested |-> FALSE]
ButtonTypes == {CallbackButton, UrlButton, OtherButton}

\* the rows of exactly n buttons
RowsOf(n) == [1..n -> ButtonTypes]

\* the keyboards of at most n buttons, in non-empty rows
RECURSIVE Keyboards(_)
Keyboards(n) ==
  {<<>>} \cup
  UNION {{<<r>> \o k : r \in RowsOf(m), k \in Keyboards(n - m)} : m \in 1..n}

\* what an activation attempt can do: succeed, raise, or raise
\* PersistentTimestampOutdatedError and, after catch_up, succeed or raise
ClickOutcomes == {"ok", "error", "outdated_ok", "outdated_error"}
Clicked(outcome) == outcome \in {"ok", "outdated_ok"}

\* lines 67-70, 76, 81: the locals in front of the loops
NewBox(pc) ==
  [pc |-> pc, row_index |-> 0, button_index |-> 0, position |-> 0,
   clicked |-> FALSE,
   buttons_clicked |-> 0, buttons_total |-> 0, buttons_failed |-> 0,
   buttons_skipped |-> 0, clicks |-> {}]

\* the button the loops are at
Button == reply_markup.rows[box.row_index + 1][box.position + 1]

BoxUnchanged ==
  UNCHANGED <<cfgVars, solverVars, chVars, schedVars, wordlist, startVars,
              routerVars, flagVars, queueVars, wVars, co, pVars, sd_pc,
              phases, bVars, reply_markup>>

\* lines 26-61: the connection is tested; without a keyboard the call
\* returns
X_Enter ==
  /\ box = None
  /\ box' = NewBox(IF ~connected THEN "reconnect"
                   ELSE IF reply_markup = None THEN "returned"
                   ELSE "loop")
  /\ UNCHANGED connected
  /\ BoxUnchanged

\* lines 37-40
X_Reconnected ==
  /\ box # None /\ box.pc = "reconnect"
  /\ connected' = TRUE
  /\ box' = NewBox(IF reply_markup = None THEN "returned" ELSE "loop")
  /\ BoxUnchanged

\* lines 41-45
X_ReconnectFailed ==
  /\ box # None /\ box.pc = "reconnect"
  /\ box' = NewBox("returned")
  /\ UNCHANGED connected
  /\ BoxUnchanged

\* lines 77-87 and 230: the next button of the row, the next row, or the
\* end of the loops and the summary of lines 234-259
X_Loop ==
  /\ box # None /\ box.pc = "loop"
  /\ box' =
       IF box.row_index >= Len(reply_markup.rows)
         THEN [box EXCEPT !.pc = "done"]
       ELSE IF box.position >= Len(reply_markup.rows[box.row_index + 1])
         THEN [box EXCEPT !.row_index = @ + 1, !.button_index = 0,
                          !.position = 0]
       ELSE [box EXCEPT !.buttons_total = @ + 1, !.clicked = FALSE,
                        !.pc = "method1"]
  /\ UNCHANGED connected
  /\ BoxUnchanged

\* one method of lines 89-206: if its test holds the attempt is made and
\* recorded, and clicked is set if it succeeds.  Method 2 addresses the
\* button by row_index and button_index, the others by the button's data.
Attempt(method, applies, next) ==
  /\ box # None /\ box.pc = method
  /\ IF applies
       THEN \E outcome \in ClickOutcomes :
              box' = [box EXCEPT
                        !.clicks = @ \cup
                          {[method |-> method, row |-> box.row_index,
                            button |-> IF method = "method2"
                                         THEN box.button_index
                                         ELSE box.position,
                            at |-> box.position,
                            ok |-> Clicked(outcome)]},
                        !.clicked = Clicked(outcome),
                        !.pc = next]
       ELSE box' = [box EXCEPT !.pc = next]
  /\ UNCHANGED connected
  /\ BoxUnchanged

\* lines 89-115: by callback data
X_Method1 == Attempt("method1", Button.data, "method2")

\* lines 117-143: by position, whatever the button is
X_Method2 == Attempt("method2", ~box.clicked, "method3")

\* lines 145-165: by the data of a nested button
X_Method3 == Attempt("method3", ~box.clicked /\ Button.nested, "method4")

\* lines 167-206: by a direct request with the callback data
X_Method4 == Attempt("method4", ~box.clicked /\ Button.data, "count")

\* lines 208-227: the button is counted
X_Count ==
  /\ box # None /\ box.pc = "count"
  /\ box' =
       [IF box.clicked THEN [box EXCEPT !.buttons_clicked = @ + 1]
        ELSE IF Button.url THEN [box EXCEPT !.buttons_skipped = @ + 1]
        ELSE [box EXCEPT !.buttons_failed = @ + 1]
        EXCEPT !.button_index = @ + 1, !.position = @ + 1, !.pc = "loop"]
  /\ UNCHANGED connected
  /\ BoxUnchanged

\* lines 228-229: a statement of the loop body outside the inner handlers
\* (the print of line 84, 91 or 119) raises an Exception; it is logged and
\* the for loop goes on to the next button.  Lines 208-227 are skipped.
X_Raised ==
  /\ box # None /\ box.pc \in {"method1", "method2", "method3", "method4"}
  /\ box' = [box EXCEPT !.position = @ + 1, !.pc = "loop"]
  /\ UNCHANGED connected
  /\ BoxUnchanged

\* lines 208-229: the button is counted and the print that follows (line
\* 215, 220 or 224) raises: line 227 is skipped
X_CountRaised ==
  /\ box # None /\ box.pc = "count"
  /\ box' =
       [IF box.clicked THEN [box EXCEPT !.buttons_clicked = @ + 1]
        ELSE IF Button.url THEN [box EXCEPT !.buttons_skipped = @ + 1]
        ELSE [box EXCEPT !.buttons_failed = @ + 1]
        EXCEPT !.position = @ + 1, !.pc = "loop"]
  /\ UNCHANGED connected
  /\ BoxUnchanged

process_box_message ==
  \/ X_Enter \/ X_Reconnected \/ X_ReconnectFailed \/ X_Loop
  \/ X_Method1 \/ X_Method2 \/ X_Method3 \/ X_Method4 \/ X_Count

(***************************************************************************)
(* schedule_bonus_messages, schedule_bonus.py lines 30-136: a program of   *)
(* its own, one step per await.                                            *)
(*   s_pc  none: not running, connect: in initialize_client, find_group:   *)
(*         in find_or_join_group, send: in client.send_message of line 77  *)
(*         or 103, floodwait: in asyncio.sleep of line 81 or 108, retry:   *)
(*         in client.send_message of line 82 or 109, disconnect: in the    *)
(*         finally block, exited                                           *)
(***************************************************************************)
max_messages == 100

ScheduleUnchanged ==
  UNCHANGED <<cfgVars, solverVars, chVars, boxVars, wordlist, startVars,
              routerVars, pipeVars, bVars>>

\* lines 41-44: the client, or None and the function returns
SB_Connect ==
  /\ s_pc = "connect"
  /\ \/ s_pc' = "find_group" /\ UNCHANGED s_end
     \/ s_pc' = "exited" /\ s_end' = "no_client"
  /\ UNCHANGED <<message_count, failures>>
  /\ ScheduleUnchanged

\* lines 49-77: the group is found, the first message is counted and its
\* send_message is called; or there is no group (the return of line 52 or
\* an exception caught at line 129) and the finally block follows
SB_FindGroup ==
  /\ s_pc = "find_group"
  /\ \/ s_pc' = "send" /\ message_count' = 1 /\ UNCHANGED s_end
     \/ s_pc' = "disconnect" /\ s_end' = "no_group"
        /\ UNCHANGED message_count
  /\ UNCHANGED failures
  /\ ScheduleUnchanged

\* lines 89-103 and 116-125: the loop test; the next message is counted and
\* its send_message is called, or the summary is logged and the finally
\* block follows
NextMessage ==
  IF message_count < max_messages
    THEN s_pc' = "send" /\ message_count' = message_count + 1
         /\ UNCHANGED s_end
    ELSE s_pc' = "disconnect" /\ s_end' = "completed"
         /\ UNCHANGED message_count

\* lines 77-78 and 103-105: the message is scheduled
SB_Scheduled ==
  /\ s_pc = "send"
  /\ NextMessage
  /\ UNCHANGED failures
  /\ ScheduleUnchanged

\* lines 79-81 and 106-108: FloodWaitError; asyncio.sleep(e.seconds) begins
SB_FloodWait ==
  /\ s_pc = "send"
  /\ s_pc' = "floodwait"
  /\ UNCHANGED <<message_count, failures, s_end>>
  /\ ScheduleUnchanged

\* lines 82 and 109: the sleep is over, send_message is called again
SB_Retry ==
  /\ s_pc = "floodwait"
  /\ s_pc' = "retry"
  /\ UNCHANGED <<message_count, failures, s_end>>
  /\ ScheduleUnchanged

\* lines 82-83 and 109-111: the retry schedules the message
SB_RetryScheduled ==
  /\ s_pc = "retry"
  /\ NextMessage
  /\ UNCHANGED failures
  /\ ScheduleUnchanged

\* lines 82 and 109: the retry raises.  The call stands in the handler of
\* FloodWaitError, so the except Exception of line 84 or 112 does not apply:
\* the exception leaves the loop and is caught at line 129
SB_RetryFailed ==
  /\ s_pc = "retry"
  /\ failures' = failures + 1
  /\ s_pc' = "disconnect" /\ s_end' = "error"
  /\ UNCHANGED message_count
  /\ ScheduleUnchanged

\* lines 84-85 and 112-114: any other exception of send_message is logged
SB_Error ==
  /\ s_pc = "send"
  /\ failures' = failures + 1
  /\ NextMessage
  /\ ScheduleUnchanged

\* lines 131-136: the client is disconnected and the function returns
SB_Disconnect ==
  /\ s_pc = "disconnect"
  /\ s_pc' = "exited"
  /\ UNCHANGED <<message_count, failures, s_end>>
  /\ ScheduleUnchanged

schedule_bonus_messages ==
  \/ SB_Connect \/ SB_FindGroup \/ SB_Scheduled \/ SB_FloodWait \/ SB_Retry
  \/ SB_RetryScheduled \/ SB_RetryFailed \/ SB_Error \/ SB_Disconnect

\* the events that start a challenge task: the keyword with a photo, and
\* the keyword alone
ChallengeEvents ==
  {[chat_id |-> -(SUPERGROUP_PREFIX + GroupId),
    sender |-> [username |-> "boss"], message |-> <<"chalesh">>,
    photo |-> p, document |-> FALSE] : p \in BOOLEAN}

R_DeliverChallenge == Deliver(ChallengeEvents, MaxEvents)

R_DeliverConcurrent ==
  Deliver({e \in ChallengeEvents : e.photo}, MaxChallenges)

\* the events that start both tasks
MaxRouted == 2

RoutedEvents ==
  {[chat_id |-> -(SUPERGROUP_PREFIX + GroupId),
    sender |-> [username |-> "boss"], message |-> <<"chalesh", "jabeh">>,
    photo |-> p, document |-> FALSE] : p \in BOOLEAN}

R_DeliverRouted == Deliver(RoutedEvents, MaxRouted)

(***************************************************************************)
(* Specifications.  Each starts from the state Bot.start() leaves for one  *)
(* configuration and takes the steps of the parts that run in it.          *)
(***************************************************************************)
\* no call of parse_and_solve_math has been made
SolverIdle == expr = Unbound /\ text = <<>> /\ result = Unbound

\* no challenge task has started and the OCR pool is idle
ChallengesIdle == ct = <<>> /\ ocr_queue = <<>> /\ ocr_running = {}

\* process_box_message has not been called
BoxIdle == reply_markup = None /\ box = None

\* schedule_bonus.py is not running
ScheduleIdle ==
  s_pc = "none" /\ message_count = 0 /\ failures = 0 /\ s_end = "none"

\* no handler task has started
TasksIdle == ChallengesIdle /\ BoxIdle

\* the requests the producer has put and the worker has not yet taken
MaxQueued == 2

\* the state after Bot.start(), for the feature toggles given and an OCR
\* engine that did or did not initialise; with queued > 0, the state in
\* which the producer sleeps after it has put that many requests and the
\* worker is at its loop test
StartedWith(words, bonus, ocr, queued) ==
  /\ ENABLE_WORD_SENDING = words
  /\ ENABLE_BONUS_MESSAGES = bonus
  /\ m_pc = "run"
  /\ group_entity = Channel(GroupId)
  /\ ocr_model = ocr
  /\ handler_registered = TRUE
  /\ handlers = <<>>
  /\ tasks = <<>>
  /\ wordlist = IF words THEN <<"w1">> ELSE <<>>
  /\ running = TRUE
  /\ worker_running = TRUE
  /\ message_queue = [i \in 1..queued |-> [type |-> "word",
                                            message |-> wordlist[1]]]
  /\ put_log = [i \in 1..queued |-> "word"]
  /\ w_pc = "check"
  /\ message_data = Unbound
  /\ sent_message = None
  /\ delay = 0
  /\ elapsed = 0
  /\ deleters = <<>>
  /\ pace = -1
  /\ co = <<>>
  /\ p_pc = IF ~words THEN "none" ELSE IF queued = 0 THEN "ready" ELSE "sleep"
  /\ p_cancel = FALSE
  /\ sd_pc = "run"
  /\ connected = TRUE
  /\ phases = <<>>
  /\ b_pc = IF bonus THEN "ready" ELSE "none"
  /\ b_cancel = FALSE
  /\ now = 0
  /\ last_send_time = 0
  /\ next_interval = 0
  /\ wake_at = 0
  /\ b_call = NewCall
  /\ bonus_times = <<>> /\ bonus_intervals = <<>>

StartedBot(words, bonus, ocr) == StartedWith(words, bonus, ocr, 0)

Started(words, bonus) ==
  StartedBot(words, bonus, TRUE) /\ SolverIdle /\ TasksIdle /\ ScheduleIdle

\* the fast band (WORD_SENDER_SLOW_MODE true selects it, settings.py lines
\* 45-48) without auto-delete, both handlers enabled, no sender filter
DefaultConfig ==
  /\ WORD_SENDER_SLOW_MODE = TRUE
  /\ AUTO_DELETE_WORD_MESSAGES = FALSE
  /\ ENABLE_MATH_CHALLENGES = TRUE
  /\ ENABLE_BOX_MESSAGES = TRUE
  /\ MESSAGE_SENDER_USERNAME = ""

\* the word pipeline, bonus messages disabled
Init == DefaultConfig /\ Started(TRUE, FALSE)
Next == Worker \/ SendCoroutine \/ Producer \/ Shutdown
Spec == Init /\ [][Next]_vars

\* the bonus loop, word sending disabled: the worker thread idles
InitBonus == DefaultConfig /\ Started(FALSE, TRUE)
NextBonus == Bonus \/ Shutdown \/ W_Check \/ W_GetEmpty \/ W_Get
SpecBonus == InitBonus /\ [][NextBonus]_vars

\* both enabled, with a transport that neither fails nor is slow
InitBoth == DefaultConfig /\ Started(TRUE, TRUE)
NextBoth ==
  \/ W_Check \/ W_GetEmpty \/ W_Get \/ W_Send \/ W_Result \/ W_Sleep
  \/ W_TaskDone
  \/ \E k \in 1..Len(co) : Co_Start(k) \/ Co_Sent(k) \/ Co_Cancelled(k)
  \/ Producer
  \/ B_Start \/ B_Sent \/ B_Wake \/ B_Cancelled
  \/ Shutdown
SpecBoth == InitBoth /\ [][NextBoth]_vars

\* shutdown of the running bot, signals arriving at any time; the bonus
\* loop sends once and sleeps
InitShutdown == DefaultConfig /\ Started(TRUE, TRUE)
NextShutdown ==
  \/ Worker
  \/ \E k \in 1..Len(co) : Co_Start(k) \/ Co_Sent(k) \/ Co_Cancelled(k)
  \/ Producer
  \/ B_Start \/ B_Sent \/ B_Cancelled
  \/ Shutdown
  \/ SignalAgain
SpecShutdown == InitShutdown /\ [][NextShutdown]_vars

\* a challenge message and its task, with or without OCR engine, on a
\* connection that may drop, until a signal arrives
InitChallenge ==
  /\ DefaultConfig /\ SolverIdle /\ TasksIdle /\ ScheduleIdle
  /\ \E ocr \in BOOLEAN : StartedBot(FALSE, FALSE, ocr)
NextChallenge ==
  \/ R_DeliverChallenge
  \/ \E k \in 1..Len(handlers) :
       R_Begin(k) \/ R_Reconnected(k) \/ R_Dispatch(k)
  \/ ConnectionLost
  \/ Challenge
  \/ SignalHandler
SpecChallenge == InitChallenge /\ [][NextChallenge]_vars

\* the producer loop with errors in its body, the worker taking what is
\* put up to the send, and the shutdown
InitProducer == DefaultConfig /\ Started(TRUE, FALSE)
NextProducer ==
  \/ P_Iterate \/ P_Error \/ P_Cancelled
  \/ W_Check \/ W_GetEmpty \/ W_Get
  \/ Shutdown
SpecProducer == InitProducer /\ [][NextProducer]_vars

\* challenge messages arriving before and after the shutdown signal, and
\* the shutdown; the producer and the bonus loop have not run yet
InitLate == DefaultConfig /\ Started(TRUE, TRUE)
NextLate ==
  \/ R_DeliverChallenge
  \/ \E k \in 1..Len(handlers) : R_Begin(k) \/ R_Dispatch(k)
  \/ \E t \in 1..Len(tasks) :
       C_Start(t) \/ C_Downloaded(t) \/ C_Raised(t) \/ C_Cancelled(t)
  \/ W_Check \/ W_GetEmpty
  \/ P_Cancelled \/ B_Cancelled
  \/ Shutdown
SpecLate == InitLate /\ [][NextLate]_vars

\* several challenge messages with photo at once, up to the return of
\* recognize, while the producer and the bonus loop run
InitOcr == DefaultConfig /\ Started(TRUE, TRUE)
NextOcr ==
  \/ R_DeliverConcurrent
  \/ \E k \in 1..Len(handlers) : R_Begin(k) \/ R_Dispatch(k)
  \/ \E t \in 1..Len(tasks) :
       C_Start(t) \/ C_Downloaded(t) \/ O_Return(t)
  \/ O_Take
  \/ P_Iterate \/ B_Start
SpecOcr == InitOcr /\ [][NextOcr]_vars

\* messages that start both tasks, tasks that fail, and the loops
InitTasks == DefaultConfig /\ Started(TRUE, TRUE)
NextTasks ==
  \/ R_DeliverRouted
  \/ \E k \in 1..Len(handlers) :
       R_Begin(k) \/ R_Dispatch(k) \/ R_SenderError(k)
  \/ \E t \in 1..Len(tasks) :
       C_Start(t) \/ C_Raised(t) \/ X_Start(t) \/ X_End(t)
  \/ P_Iterate \/ B_Start \/ W_Check \/ W_GetEmpty
SpecTasks == InitTasks /\ [][NextTasks]_vars

\* parse_and_solve_math called once on the text of an expression
InitSolver ==
  /\ DefaultConfig /\ StartedBot(FALSE, FALSE, TRUE)
  /\ TasksIdle /\ ScheduleIdle
  /\ expr \in Exprs
  /\ text = ExprText(expr)
  /\ result = Unbound
NextSolver == S_Solve
SpecSolver == InitSolver /\ [][NextSolver]_vars

\* the worker with auto-delete enabled in the fast band, on a queue that
\* holds up to MaxQueued requests, with a transport that does not fail, and
\* the shutdown
InitDelete ==
  /\ WORD_SENDER_SLOW_MODE = TRUE
  /\ AUTO_DELETE_WORD_MESSAGES = TRUE
  /\ ENABLE_MATH_CHALLENGES = TRUE
  /\ ENABLE_BOX_MESSAGES = TRUE
  /\ MESSAGE_SENDER_USERNAME = ""
  /\ SolverIdle /\ TasksIdle /\ ScheduleIdle
  /\ \E queued \in 0..MaxQueued : StartedWith(TRUE, FALSE, TRUE, queued)
Coroutines ==
  \E k \in 1..Len(co) : Co_Start(k) \/ Co_Sent(k) \/ Co_Cancelled(k)
NextDelete ==
  \/ Worker \/ W_Backoff
  \/ Deleter
  \/ Coroutines
  \/ P_Cancelled
  \/ Shutdown
SpecDelete == InitDelete /\ [][NextDelete]_vars

\* the same threads without the timing of the sleeps: a deletion thread
\* may run at any time after the end of its sleep
NextRace ==
  \/ NextDelete
  \/ \E i \in 1..Len(deleters) : D_Oversleep(i)
SpecRace == InitDelete /\ [][NextRace]_vars

\* the same with the scheduling the code relies on: the worker thread and
\* the deletion threads are threads of their own and run when they can;
\* the event loop runs the coroutines handed to it; worker_thread.join
\* and client.disconnect return within their timeouts.  Neither the signal
\* nor the put of the poison value is required to happen.
SpecDeleteFair ==
  /\ SpecDelete
  /\ WF_vars(Worker \/ W_Backoff)
  /\ WF_vars(Deleter)
  /\ WF_vars(Coroutines)
  /\ WF_vars(SD_Join \/ SD_Disconnect)

\* process_box_message called once on a message with or without a keyboard
InitBox ==
  /\ DefaultConfig /\ StartedBot(FALSE, FALSE, TRUE)
  /\ SolverIdle /\ ChallengesIdle /\ ScheduleIdle
  /\ reply_markup \in {None} \cup {[rows |-> k] : k \in Keyboards(MaxButtons)}
  /\ box = None
NextBox == process_box_message \/ ConnectionLost
SpecBox == InitBox /\ [][NextBox]_vars

\* one run of schedule_bonus.py
InitSchedule ==
  /\ DefaultConfig /\ StartedBot(FALSE, FALSE, TRUE)
  /\ SolverIdle /\ ChallengesIdle /\ BoxIdle
  /\ s_pc = "connect" /\ message_count = 0 /\ failures = 0
  /\ s_end = "none"
NextSchedule == schedule_bonus_messages
SpecSchedule == InitSchedule /\ [][NextSchedule]_vars

\* the same with statements of the loop body that raise
NextBoxRaising ==
  \/ process_box_message \/ ConnectionLost
  \/ X_Raised \/ X_CountRaised
SpecBoxRaising == InitBox /\ [][NextBoxRaising]_vars

\* the same on a text with array markup
InitArray ==
  /\ DefaultConfig /\ StartedBot(FALSE, FALSE, TRUE)
  /\ TasksIdle /\ ScheduleIdle
  /\ expr \in ArrayExprs
  /\ text = ArrayText(expr)
  /\ result = Unbound
NextArray == S_Solve
SpecArray == InitArray /\ [][NextArray]_vars

\* the same on the text of an expression with two operators
InitSolver3 ==
  /\ DefaultConfig /\ StartedBot(FALSE, FALSE, TRUE)
  /\ TasksIdle /\ ScheduleIdle
  /\ expr \in Exprs3
  /\ text = ExprText3(expr)
  /\ result = Unbound
NextSolver3 == S_Solve
SpecSolver3 == InitSolver3 /\ [][NextSolver3]_vars

(***************************************************************************)
(* The claims about the word pipeline, checked under Spec                  *)
(***************************************************************************)
SendsInFlight == {k \in 1..Len(co) : InFlight(co[k])}
WordsQueued == Len(SelectSeq(message_queue, LAMBDA x : x # None))

\* C1: at most one send issued through the pacing path (message_worker and
\* send_message_to_group) is in flight at any time, also after the worker's
\* 10-second wait for a result has timed out and while
\* send_message_to_group sleeps out a rate-limit wait.
\* The code does not keep this: the send whose result the worker stopped
\* waiting for goes on, and the worker starts the next one.
C1_OneSendInFlight == Cardinality(SendsInFlight) <= 1

\* C2: the poison value is the last item ever put on the queue, and the
\* worker that dequeues it terminates at once, sending and dequeuing
\* nothing further.
C2_PoisonLast ==
  \A i \in 1..Len(put_log) : put_log[i] = "poison" => i = Len(put_log)

\* C2, in full: the poison is last in every state, the worker that holds
\* it is over, and from then on no send is started and nothing dequeued
C2_PoisonTerminates ==
  /\ [](C2_PoisonLast /\ (message_data = None => w_pc = "done"))
  /\ [][message_data = None =>
          /\ Len(co') = Len(co)
          /\ Len(message_queue') >= Len(message_queue)]_vars

\* the worker dequeued the poison that followed a word, and is over
C2_Witness ==
  /\ message_data = None /\ w_pc = "done"
  /\ Len(put_log) >= 2 /\ put_log[Len(put_log)] = "poison"

\* C3: once the stop flag is cleared, after the first send was issued, the
\* worker issues at most one more send, and what remains in the queue is
\* never drained.
SendsAfterStop == {k \in 1..Len(co) : co[k].stopped}

\* C3, in full: at most one send is started with the flag cleared, and a
\* worker that is over starts no send and dequeues nothing
C3_OneSendAfterStop ==
  /\ [](Cardinality(SendsAfterStop) <= 1)
  /\ [][w_pc = "done" =>
          /\ Len(co') = Len(co)
          /\ Len(message_queue') >= Len(message_queue)]_vars

\* the first send was started with the flag set, the second after it was
\* cleared; the worker is over and a word request is left in the queue
C3_Witness ==
  /\ Len(co) = 2 /\ ~co[1].stopped /\ co[2].stopped
  /\ w_pc = "done" /\ WordsQueued >= 1

\* C4: while the stop flag is set, a request whose send failed is never
\* sent again, and the worker sleeps the full pacing delay it drew before
\* it dequeues the next request.
C4_FailedSendPaced ==
  /\ Len(co) + WordsQueued + (IF w_pc = "send" THEN 1 ELSE 0) = WordsPut
  /\ (w_pc = "task_done" /\ sent_message = None /\ worker_running)
       => (delay \in DelayDraws /\ delay > 0 /\ elapsed = delay)

\* a send failed, the flag is set, and the worker has finished the sleep
C4_Witness ==
  /\ w_pc = "task_done" /\ sent_message = None /\ worker_running
  /\ Len(co) >= 1 /\ co[Len(co)].result = "none"
  /\ elapsed = delay /\ delay >= MIN_MESSAGE_DELAY

\* C6: on a rate-limit signal with wait W, send_message_to_group waits W
\* and then retries the send exactly once.
\* The code waits W and returns None without a second send.
C6_RetryOnceAfterFloodWait ==
  \A k \in 1..Len(co) :
    (co[k].flood > 0 /\ co[k].st = "done" /\ co[k].result # "cancelled")
      => (co[k].waited = co[k].flood /\ co[k].attempts = 2)

(***************************************************************************)
(* The claims about the bonus loop                                         *)
(***************************************************************************)
\* C8 (SpecBonus): two consecutive bonus sends are never issued closer
\* together than BONUS_INTERVAL_MIN, whatever the outcome of the sends in
\* between.
C8_BonusSpacing ==
  \A i \in 1..(Len(bonus_times) - 1) :
    bonus_times[i + 1] - bonus_times[i] >= BONUS_INTERVAL_MIN

\* three sends were issued: the second as early as the loop allows after
\* the first, the third after the second had hit a rate limit
C8_Witness ==
  /\ Len(bonus_times) = 3 /\ b_pc = "sending"
  /\ bonus_times[2] - bonus_times[1] = BONUS_INTERVAL_MIN + 1
  /\ bonus_times[3] - bonus_times[2] >= BONUS_INTERVAL_MIN + 100 * 30
  /\ bonus_times[3] - bonus_times[2] < BONUS_INTERVAL_MAX

\* C9 (SpecBoth): a bonus send never goes through the queue: every item
\* ever put is a word request or the one poison value, no step of the
\* bonus loop changes the queue, and a bonus send is issued whatever the
\* queue holds and while a word send is in flight.
C9_QueueItems ==
  /\ \A i \in 1..Len(put_log) : put_log[i] \in {"word", "poison"}
  /\ Len(SelectSeq(put_log, LAMBDA x : x = "poison")) <= 1

\* C9, in full: the items put are word requests and at most one poison,
\* and a step of the bonus loop leaves the queue as it is
C9_BonusBypassesQueue ==
  /\ []C9_QueueItems
  /\ [][(b_pc' # b_pc \/ bonus_times' # bonus_times)
          => UNCHANGED queueVars]_vars

\* the second bonus send is issued while two word requests wait in the
\* queue and a word send is in flight
C9_Witness ==
  /\ b_pc = "sending" /\ Len(bonus_times) = 2
  /\ WordsQueued >= 2 /\ SendsInFlight # {}
  /\ now = bonus_times[2]

(***************************************************************************)
(* Start-up, the rate window and the event router                          *)
(***************************************************************************)
\* main() from the constructed Bot, for every setting of the two senders'
\* toggles, and what the started parts do first
InitStartup ==
  /\ ENABLE_WORD_SENDING \in BOOLEAN
  /\ ENABLE_BONUS_MESSAGES \in BOOLEAN
  /\ DefaultConfig
  /\ m_pc = "load_wordlist"
  /\ group_entity = None
  /\ ocr_model = FALSE
  /\ handler_registered = FALSE
  /\ handlers = <<>>
  /\ tasks = <<>>
  /\ wordlist = <<>>
  /\ running = TRUE
  /\ worker_running = TRUE
  /\ message_queue = <<>>
  /\ put_log = <<>>
  /\ w_pc = "none"
  /\ message_data = Unbound
  /\ sent_message = None
  /\ delay = 0
  /\ elapsed = 0
  /\ deleters = <<>>
  /\ pace = -1
  /\ co = <<>>
  /\ p_pc = "none"
  /\ p_cancel = FALSE
  /\ sd_pc = "none"
  /\ connected = FALSE
  /\ phases = <<>>
  /\ b_pc = "none"
  /\ b_cancel = FALSE
  /\ now = 0
  /\ last_send_time = 0
  /\ next_interval = 0
  /\ wake_at = 0
  /\ b_call = NewCall
  /\ bonus_times = <<>> /\ bonus_intervals = <<>>
  /\ SolverIdle
  /\ TasksIdle /\ ScheduleIdle

NextStartup == Main \/ W_Check \/ W_GetEmpty \/ W_Get \/ P_Iterate \/ B_Start
SpecStartup == InitStartup /\ [][NextStartup]_vars

\* the router of a started bot, for every setting of its toggles and of
\* the sender filter
InitRouter ==
  /\ WORD_SENDER_SLOW_MODE = TRUE
  /\ AUTO_DELETE_WORD_MESSAGES = FALSE
  /\ ENABLE_MATH_CHALLENGES \in BOOLEAN
  /\ ENABLE_BOX_MESSAGES \in BOOLEAN
  /\ MESSAGE_SENDER_USERNAME \in Usernames
  /\ Started(FALSE, FALSE)
NextRouter == Router
SpecRouter == InitRouter /\ [][NextRouter]_vars

\* C5: with word sending enabled and an empty or missing wordlist, start-up
\* reports failure and the word producer never starts, but the bonus loop
\* (when enabled) is still started and the router is still registered.
\* The code gives up the whole start-up: initialize returns False before
\* the client exists, and main() returns.
C5_WordlistFailure ==
  ENABLE_WORD_SENDING /\ wordlist = <<>> /\ m_pc = "exited"

\* C5, as stated: after the wordlist failure the word loop does not exist,
\* the router is registered and the bonus loop (when enabled) was started
C5_RestStillStarted ==
  C5_WordlistFailure =>
    /\ p_pc = "none"
    /\ handler_registered
    /\ (ENABLE_BONUS_MESSAGES => b_pc # "none")

\* C10: with both handlers enabled, an accepted event with the challenge
\* keyword and an image and without the box keyword creates exactly one
\* challenge task and no button task; an accepted event with both keywords
\* creates exactly one challenge task and exactly one button task.
TasksOf(k, kind) ==
  Len(SelectSeq(tasks, LAMBDA t : t.event = k /\ t.kind = kind))

\* event k passed the group test and the sender filter, and its handler
\* ran to the end
Dispatched(k) == handlers[k].pc = "done"

\* C10, as stated, for every event that was accepted and dispatched
C10_ChallengeAndBox ==
  (ENABLE_MATH_CHALLENGES /\ ENABLE_BOX_MESSAGES) =>
    \A k \in 1..Len(handlers) :
      LET e == handlers[k].ev
          challenge == Contains(e.message, CHALLENGE_KEYWORD)
          box_word == Contains(e.message, BOX_KEYWORD)
      IN  Dispatched(k) =>
            /\ (challenge /\ has_photo(e) /\ ~box_word)
                 => (TasksOf(k, "challenge") = 1 /\ TasksOf(k, "box") = 0)
            /\ (challenge /\ box_word)
                 => (TasksOf(k, "challenge") = 1 /\ TasksOf(k, "box") = 1)

\* an event with both keywords and a photo was dispatched: two tasks
C10_Witness ==
  /\ ENABLE_MATH_CHALLENGES /\ ENABLE_BOX_MESSAGES
  /\ \E k \in 1..Len(handlers) :
       /\ Dispatched(k)
       /\ handlers[k].ev.message = <<"chalesh", "jabeh">>
       /\ handlers[k].ev.photo
       /\ Len(tasks) = 2

\* the word pipeline with a transport that delivers, for each of the four
\* combinations of the rate mode and the auto-delete toggle
InitWindow ==
  /\ WORD_SENDER_SLOW_MODE \in BOOLEAN
  /\ AUTO_DELETE_WORD_MESSAGES \in BOOLEAN
  /\ ENABLE_MATH_CHALLENGES = TRUE
  /\ ENABLE_BOX_MESSAGES = TRUE
  /\ MESSAGE_SENDER_USERNAME = ""
  /\ Started(TRUE, FALSE)
NextWindow ==
  \/ W_Check \/ W_GetEmpty \/ W_Get \/ W_Send \/ W_Result \/ W_Sleep
  \/ W_TaskDone \/ W_Backoff
  \/ \E k \in 1..Len(co) : Co_Start(k) \/ Co_Sent(k)
  \/ \E i \in 1..Len(deleters) : D_Wake(i)
  \/ P_Iterate
SpecWindow == InitWindow /\ [][NextWindow]_vars

\* C7 (SpecWindow): for each of the four combinations of the rate mode and
\* the auto-delete toggle the window has 0 < MIN_MESSAGE_DELAY <=
\* MAX_MESSAGE_DELAY, and the delay the worker sleeps lies in it.
C7_WindowOrdered ==
  /\ 0 < MIN_MESSAGE_DELAY
  /\ MIN_MESSAGE_DELAY <= MAX_MESSAGE_DELAY
  /\ w_pc = "sleep"
       => (MIN_MESSAGE_DELAY <= delay /\ delay <= MAX_MESSAGE_DELAY)

\* fast band with auto-delete: the worker sleeps the lower end, 2.27 s
C7_Witness ==
  /\ WORD_SENDER_SLOW_MODE /\ AUTO_DELETE_WORD_MESSAGES
  /\ w_pc = "sleep" /\ elapsed > 0
  /\ delay = MIN_MESSAGE_DELAY /\ delay = FAST_MIN - DELETE_WAIT_TIME

(***************************************************************************)
(* The claims about the event router, checked under SpecRouter             *)
(***************************************************************************)
\* a chat identifier with only the large-group prefix stripped
StripPrefix(chat_id) ==
  IF chat_id < 0 /\ -chat_id > SUPERGROUP_PREFIX
    THEN -chat_id - SUPERGROUP_PREFIX
    ELSE chat_id

WantsChallenge(e) ==
  ENABLE_MATH_CHALLENGES
    /\ (Contains(e.message, CHALLENGE_KEYWORD) \/ e.photo \/ e.document)
WantsBox(e) == ENABLE_BOX_MESSAGES /\ Contains(e.message, BOX_KEYWORD)

\* C12: with a sender username configured, an event whose sender is
\* missing or has another username creates no challenge task and no button
\* task; with none configured, the sender has no influence on the tasks
\* created: no event is stopped at the filter, and the tasks of an event
\* are those its text and media ask for.
C12_SenderFilter ==
  /\ MESSAGE_SENDER_USERNAME # "" =>
       \A t \in 1..Len(tasks) :
         LET e == handlers[tasks[t].event].ev
         IN  e.sender # None /\ e.sender.username = MESSAGE_SENDER_USERNAME
  /\ MESSAGE_SENDER_USERNAME = "" =>
       \A k \in 1..Len(handlers) :
         /\ handlers[k].pc # "filtered"
         /\ handlers[k].pc = "done" =>
              /\ TasksOf(k, "challenge")
                   = (IF WantsChallenge(handlers[k].ev) THEN 1 ELSE 0)
              /\ TasksOf(k, "box")
                   = (IF WantsBox(handlers[k].ev) THEN 1 ELSE 0)

\* the filter is configured, and an event of the target group with both
\* keywords and a photo, sent by somebody else, was stopped at the filter
C12_Witness ==
  /\ MESSAGE_SENDER_USERNAME = "boss"
  /\ ENABLE_MATH_CHALLENGES /\ ENABLE_BOX_MESSAGES
  /\ \E k \in 1..Len(handlers) :
       /\ handlers[k].pc = "filtered"
       /\ handlers[k].ev.sender = [username |-> "other"]
       /\ handlers[k].ev.message = <<"chalesh", "jabeh">>
       /\ handlers[k].ev.photo
  /\ tasks = <<>>


(***************************************************************************)
(* Bot.shutdown, bot.py lines 240-296                                      *)
(***************************************************************************)
IsPrefix(s, t) == Len(s) <= Len(t) /\ \A i \in 1..Len(s) : s[i] = t[i]

Has(s, x) == \E i \in 1..Len(s) : s[i] = x

PhaseOrder ==
  <<"flags", "cancel", "poison", "join", "ocr_shutdown", "disconnect",
    "stopped">>

\* the order when the worker thread has already ended (bot.py line 272
\* skips the join of a thread that is not alive)
PhaseOrderThreadOver ==
  <<"flags", "cancel", "poison", "ocr_shutdown", "disconnect", "stopped">>

\* C17: the phases of Bot.shutdown begin in the order flags, cancel, poison,
\* join, OCR pool shutdown, disconnect (the join left out only when the
\* thread has already ended), and each begins after the one before is over:
\* the poison value is put with both flags cleared and both loop tasks
\* over, and is the last item put; the transport is closed only by the
\* last phase.
C17_PhaseOrder ==
  /\ IsPrefix(phases, PhaseOrder) \/ IsPrefix(phases, PhaseOrderThreadOver)
  /\ Has(phases, "poison") =>
        /\ ~running /\ ~worker_running
        /\ ProducerOver /\ BonusOver
        /\ put_log # <<>> /\ put_log[Len(put_log)] = "poison"
  /\ (phases # <<>> /\ ~Has(phases, "poison")) => ~Has(put_log, "poison")
  /\ (phases # <<>> /\ ~connected) => Has(phases, "stopped")

\* the join timed out with the worker still waiting for its send, and the
\* later phases ran all the same
C17_Witness == phases = PhaseOrder /\ w_pc = "wait_result" /\ ~connected

\* C18: once Bot.shutdown has begun, the process ends only after the last
\* phase: the transport is disconnected and shutdown has returned.
C18_ShutdownCompletes ==
  (sd_pc = "exited" /\ phases # <<>>) =>
     (Has(phases, "stopped") /\ ~connected)

\* C19: both run flags are set until Bot.shutdown begins and cleared from
\* then on; they change in no step but the first one of Bot.shutdown, which
\* clears both.
C19_FlagsClearedOnce ==
  /\ [](/\ phases = <<>> => (running /\ worker_running)
        /\ phases # <<>> => (~running /\ ~worker_running))
  /\ [][(running' # running \/ worker_running' # worker_running) =>
         (/\ sd_pc = "signalled" /\ sd_pc' = "gather"
          /\ running /\ worker_running
          /\ ~running' /\ ~worker_running')]_vars

\* the worker thread and the producer went on after the flags were cleared
\* and neither set them again
C19_Witness ==
  /\ ~running /\ ~worker_running
  /\ sd_pc = "exited" /\ Has(phases, "stopped")
  /\ w_pc = "done" /\ p_pc = "cancelled" /\ Len(put_log) >= 2


(***************************************************************************)
(* parse_and_solve_math                                                    *)
(***************************************************************************)
\* an expression with a non-zero right operand where it divides
WellFormed(e) == e.op = "/" => e.b # 0

\* the value of a op b
ValueOf(e) ==
  CASE e.op = "+" -> Fraction(e.a + e.b, 1)
    [] e.op = "-" -> Fraction(e.a - e.b, 1)
    [] e.op = "*" -> Fraction(e.a * e.b, 1)
    [] e.op = "/" -> Fraction(e.a, e.b)

SameValue(x, y) == x.n * y.d = y.n * x.d

\* C20: for every well-formed expression a op b of the input set, a
\* negative left operand included, the value parse_and_solve_math returns
\* is the value of a op b.
C20_SolverCorrect ==
  (result # Unbound /\ WellFormed(expr)) =>
     (result # None /\ SameValue(result, ValueOf(expr)))

\* the same for the expressions whose left operand has no sign (this one
\* holds)
SolverCorrectUnsigned ==
  (result # Unbound /\ WellFormed(expr) /\ expr.a >= 0) =>
     (result # None /\ SameValue(result, ValueOf(expr)))


(***************************************************************************)
(* The handler tasks                                                       *)
(***************************************************************************)
TaskFailed(t) == TaskStarted(t) /\ ct[t].pc \in {"error", "box_error"}

\* the tasks of event k are those its text and media ask for
BothDispatched(k) ==
  /\ TasksOf(k, "challenge") = (IF WantsChallenge(handlers[k].ev) THEN 1 ELSE 0)
  /\ TasksOf(k, "box") = (IF WantsBox(handlers[k].ev) THEN 1 ELSE 0)

\* the steps of the router and of the loops that are due can be taken
LoopStepsEnabled ==
  /\ \A k \in 1..Len(handlers) :
       /\ handlers[k].pc = "start" => ENABLED R_Begin(k)
       /\ handlers[k].pc = "get_sender" => ENABLED R_Dispatch(k)
  /\ (p_pc \in {"ready", "sleep"} /\ WordsPut < MaxWords) => ENABLED P_Iterate
  /\ b_pc = "ready" => ENABLED B_Start
  /\ w_pc = "check" => ENABLED W_Check

\* C13: the router's steps are enabled whatever state the tasks are in (it
\* waits for none), also after a task has failed; the event of a failed
\* task has both its tasks; a new event can still be delivered and routed;
\* and no step of a task changes the router's handlers, the run flags or
\* the position of the producer, the bonus loop or the worker, which are
\* all still running.
C13_TasksIndependent ==
  /\ [](/\ LoopStepsEnabled
        /\ Len(handlers) < MaxRouted => ENABLED R_DeliverRouted
        /\ \A t \in 1..Len(tasks) :
             TaskFailed(t) => BothDispatched(tasks[t].event)
        /\ \A k \in 1..Len(handlers) : Dispatched(k) => BothDispatched(k)
        /\ running /\ worker_running
        /\ p_pc \in {"ready", "sleep"} /\ b_pc \in {"ready", "sending"}
        /\ w_pc \in {"check", "get"})
  /\ [][ct' # ct =>
          UNCHANGED <<handlers, tasks, flagVars, queueVars, pVars, w_pc, b_pc,
                      b_cancel>>]_vars

\* the challenge task of the first event failed; its button task exists and
\* went on to the end; the second event was routed all the same and its
\* tasks run; the producer has put a word
C13_Witness ==
  /\ Len(tasks) = 4
  /\ TaskFailed(1) /\ tasks[1] = ChallengeTask(1)
  /\ TaskStarted(2) /\ tasks[2] = BoxTask(1) /\ ct[2].pc = "box_done"
  /\ Dispatched(2) /\ tasks[3] = ChallengeTask(2)
  /\ TaskStarted(3) /\ ct[3].pc = "download"
  /\ WordsPut >= 1 /\ b_pc = "sending"

RepliesTo(k) ==
  Cardinality({t \in DOMAIN ct : tasks[t].event = k /\ ct[t].replies > 0})

\* C14: a challenge task has delivered a reply only if it ended as replied,
\* the message had an image, the file was written, the OCR engine exists,
\* recognize returned, the extracted text is not empty and the parser gives
\* a value for it; a task that ended any other way has delivered none; no
\* task delivers two, and no message has two tasks that reply.
C14_ReplyOnlyOnSuccess ==
  /\ \A t \in DOMAIN ct :
       tasks[t].kind = "challenge" =>
         /\ ct[t].replies <= 1
         /\ ct[t].replies = 1 =>
              /\ ct[t].pc = "replied"
              /\ TaskEvent(t).photo \/ TaskEvent(t).document
              /\ ct[t].created
              /\ ocr_model
              /\ ct[t].ocr_done
              /\ ct[t].extracted_text # Unbound
              /\ ct[t].extracted_text # <<>>
              /\ parse_and_solve_math(ct[t].extracted_text) # None
         /\ ct[t].pc = "replied" => ct[t].replies = 1
         /\ ct[t].pc \in ChallengeEnded \ {"replied"} => ct[t].replies = 0
  /\ \A k \in 1..Len(handlers) : RepliesTo(k) <= 1

C14_Witness ==
  \E t \in DOMAIN ct :
    /\ ct[t].pc = "replied" /\ ct[t].replies = 1
    /\ ct[t].extracted_text =
         ExprText([a |-> 2, op |-> "+", b |-> 3, form |-> "question"])

C16_OcrBounded ==
  /\ Cardinality(ocr_running) <= max_workers
  /\ ocr_running # {} =>
       /\ LoopStepsEnabled
       /\ Len(handlers) < MaxChallenges => ENABLED R_DeliverConcurrent

\* two recognize calls run, a third waits, and the producer has put words
\* meanwhile
C16_Witness ==
  /\ Cardinality(ocr_running) = 2 /\ ocr_queue # <<>>
  /\ WordsPut >= 1


\* C21: for every text whose division has right operand 0, whichever of
\* the three places reads it (the pattern on the text, the pattern on the
\* cleaned text, the evaluation of the whole text), the value returned is
\* None: no value with divisor 0 is returned.
C21_DivisionByZero ==
  /\ (result # Unbound /\ expr.op = "/" /\ expr.b = 0) => result = None
  /\ (result # Unbound /\ result # None) => result.d # 0

\* the division by zero read by the evaluation of the whole text
C21_Witness ==
  /\ expr.op = "/" /\ expr.b = 0 /\ expr.form = "paren"
  /\ result = None

\* the value of a three-operand expression under standard precedence
ValueOf3(e) ==
  LET a == Fraction(e.a, 1)
      b == Fraction(e.b, 1)
      c == Fraction(e.c, 1)
  IN  IF e.op \in {"+", "-"} /\ e.op2 \in {"*", "/"}
        THEN ApplyValues(a, e.op, ApplyValues(b, e.op2, c))
        ELSE ApplyValues(ApplyValues(a, e.op, b), e.op2, c)

\* no division by zero in it
WellFormed3(e) ==
  /\ e.op = "/" => e.b # 0
  /\ e.op2 = "/" => e.c # 0

\* C22: for a text with two operators the value returned is the value of
\* the whole expression under standard precedence, or None.
C22_NoPartialResult ==
  (result # Unbound /\ WellFormed3(expr)) =>
     (result = None \/ SameValue(result, ValueOf3(expr)))


\* the URL buttons the loops have counted
UrlButtonsCounted ==
  {<<r, b>> \in (0..MaxButtons) \X (0..MaxButtons) :
     /\ r + 1 <= Len(reply_markup.rows)
     /\ b + 1 <= Len(reply_markup.rows[r + 1])
     /\ reply_markup.rows[r + 1][b + 1].url
     /\ \/ r < box.row_index
        \/ r = box.row_index /\ b < box.position}

\* C23: no activation attempt of any kind is made on a URL button, and
\* each URL button the loops have passed is counted as skipped, none as
\* clicked or failed.
C23_UrlButtonSkipped ==
  (box # None /\ reply_markup # None) =>
     /\ \A c \in box.clicks : ~reply_markup.rows[c.row + 1][c.button + 1].url
     /\ box.buttons_skipped = Cardinality(UrlButtonsCounted)


\* C24: the worker reads the stop flag before each send: no send is started
\* with worker_running cleared, also not for a request that the worker had
\* dequeued, or was about to dequeue, when the flag was cleared.
C24_NoSendAfterStop ==
  \A k \in 1..Len(co) : ~co[k].stopped


\* C25: once worker_running is cleared the worker thread comes to its end
\* (it leaves the loop, or the process ends and with it the daemon thread),
\* whether it waits on the empty queue, for a send result, in the pacing
\* sleep or in the back-off, and whether or not the poison value was put;
\* with the flag cleared the sleep loop sleeps no further slice.
C25_WorkerTerminates ==
  /\ (~worker_running) ~> (w_pc = "done" \/ ~Alive)
  /\ [][(w_pc = "sleep" /\ ~worker_running) => elapsed' = elapsed]_vars

\* the flag was cleared during the pacing sleep and the worker has left the
\* sleep early and the loop, no poison value put
C25_Witness ==
  /\ ~worker_running /\ w_pc = "done" /\ Alive
  /\ \A i \in 1..Len(put_log) : put_log[i] # "poison"
  /\ elapsed > 0 /\ elapsed < delay

\* C26: with auto-delete enabled the time between the starts of two
\* consecutive sends of the pacing path, the flag set, is at least the base
\* minimum delay of the band.
C26_BaseBandKept ==
  [][(/\ AUTO_DELETE_WORD_MESSAGES /\ worker_running
      /\ w_pc = "send" /\ w_pc' = "wait_result" /\ pace >= 0)
       => pace >= base_min_delay]_vars

\* a delete was requested for the message of deletion thread i
DeleteRequested(i) ==
  Len(deleters) >= i /\ deleters[i].st \in {"deleting", "deleted", "failed"}

\* C27: with auto-delete enabled, for every word message whose send
\* succeeded a delete is eventually requested, also when the shutdown
\* begins before the deletion wait is over.
C27_DeleteRequested ==
  \A i \in 1..MaxQueued : [](Len(deleters) >= i => <>DeleteRequested(i))


\* the task is over, or the signal handler has called cancel() on it
CancelledOrFinished(t) ==
  \/ ~handlers[tasks[t].event].late
  \/ TaskStarted(t) /\ ct[t].pc \in ChallengeEnded \cup {"box_done", "box_error"}

\* C28: when Bot.shutdown has completed, the producer, the bonus loop and
\* every handler task are cancelled or finished, the tasks of events that
\* arrived after the shutdown signal included.
C28_AllTasksOver ==
  Has(phases, "stopped") =>
    /\ ProducerOver /\ BonusOver
    /\ \A t \in 1..Len(tasks) : CancelledOrFinished(t)


\* C29: the producer loop ends only because the stop flag was cleared or
\* the task was cancelled; an error in the loop body leads to the back-off
\* and from there to a new iteration; once the task is cancelled, in the
\* pacing sleep or in the back-off, nothing more is put.
C29_ProducerLoop ==
  /\ [][(~ProducerOver /\ ProducerOver') =>
          \/ p_pc' = "cancelled" /\ p_cancel
          \/ p_pc' = "done" /\ ~running]_vars
  /\ [][(p_pc = "backoff" /\ p_pc' # "backoff") =>
          \/ p_pc' = "cancelled" /\ p_cancel
          \/ p_pc' = "done" /\ ~running
          \/ p_pc' = "sleep" /\ running /\ WordsPut' = WordsPut + 1]_vars
  /\ [][p_cancel => (WordsPut' = WordsPut /\ p_pc' \in {p_pc, "cancelled"})]_vars

\* the task is in the back-off after an error, words have been put and the
\* cancellation has been requested
C29_Witness ==
  /\ p_pc = "backoff" /\ p_cancel
  /\ WordsPut >= 1


\* C30: for every accepted event the router creates a challenge task
\* exactly when math challenges are enabled and the text has the challenge
\* keyword or the message carries a photo or a document, and a button task
\* exactly when box messages are enabled and the text has the box keyword;
\* no event ever has more than one challenge task or more than one button
\* task.
C30_TasksPerEvent ==
  \A k \in 1..Len(handlers) :
    /\ TasksOf(k, "challenge") <= 1 /\ TasksOf(k, "box") <= 1
    /\ Dispatched(k) =>
         /\ TasksOf(k, "challenge") = 1 <=> WantsChallenge(handlers[k].ev)
         /\ TasksOf(k, "box") = 1 <=> WantsBox(handlers[k].ev)
    /\ ~Dispatched(k) =>
         TasksOf(k, "challenge") = 0 /\ TasksOf(k, "box") = 0

\* an accepted event without the challenge keyword that carries a document
\* and no photo, with the box keyword while box messages are disabled: one
\* challenge task and no button task
C30_Witness ==
  /\ ENABLE_MATH_CHALLENGES /\ ~ENABLE_BOX_MESSAGES
  /\ \E k \in 1..Len(handlers) :
       /\ Dispatched(k)
       /\ handlers[k].ev.message = <<"jabeh">>
       /\ handlers[k].ev.document /\ ~handlers[k].ev.photo
       /\ TasksOf(k, "challenge") = 1 /\ TasksOf(k, "box") = 0


\* the sum of the first n elements of a sequence of numbers
RECURSIVE SumOfFirst(_, _)
SumOfFirst(s, n) == IF n = 0 THEN 0 ELSE SumOfFirst(s, n - 1) + s[n]

\* C31: the delay of the bonus loop does not compound: for every n the
\* n-th bonus send starts no later than the start of the first send plus
\* the sum of the n-1 intervals drawn for the cycles, plus a scheduling
\* epsilon (0.1 s here), whatever the duration of the sends.
\* The code counts each interval from the completion of the previous send,
\* so the durations of all earlier sends add up in the start of the n-th.
C31_NoCompounding ==
  \A n \in 1..Len(bonus_times) :
    bonus_times[n] <= bonus_times[1] + SumOfFirst(bonus_intervals, n - 1) + 10


ProducerDue ==
  /\ LoopRuns /\ p_pc \in {"ready", "sleep", "backoff"} /\ ~p_cancel
  /\ running /\ WordsPut < MaxWords

C33_ProducerNeverBlocked ==
  /\ [](ProducerDue => ENABLED P_Iterate)
  /\ [][WordsPut' # WordsPut
          => /\ ProducerDue /\ p_pc' = "sleep"
             /\ WordsPut' = WordsPut + 1
             /\ Len(message_queue') = Len(message_queue) + 1]_vars

\* producer and worker both run, the worker is in its pacing sleep after a
\* send, and all the other words put are pending
C33_Witness ==
  /\ running /\ worker_running /\ p_pc = "sleep" /\ w_pc = "sleep"
  /\ co # <<>>
  /\ WordsPut = MaxWords /\ WordsQueued = MaxWords - 1


\* C34: a run of schedule_bonus_messages that has found its group makes a
\* scheduling attempt for exactly max_messages messages and then ends; a
\* message that could not be scheduled, also one whose retry after the
\* rate-limit wait failed, does not keep the later messages from their
\* attempts.
\* The code leaves the loop when a retry raises: the messages after that
\* one are never attempted.
C34_AllAttempted ==
  (s_pc = "exited" /\ s_end \notin {"no_client", "no_group"})
    => message_count = max_messages

\* the same for the runs in which no retry raised (this one holds)
AllAttemptedUnlessRetryRaised ==
  (s_pc = "exited" /\ s_end = "completed") => message_count = max_messages


\* the number of buttons of the keyboard
RECURSIVE ButtonsIn(_)
ButtonsIn(rows) ==
  IF rows = <<>> THEN 0 ELSE Len(Head(rows)) + ButtonsIn(Tail(rows))

\* C35: when process_box_message has gone through a keyboard, clicked +
\* failed + skipped is the number of buttons, which is the total counted;
\* no button was successfully activated more than once; and every attempt
\* by position addressed the button the loop was at, also after an error
\* on an earlier button.
\* In the code an exception that reaches line 228 skips the counting and
\* the increment of button_index (line 227); where none does (SpecBox) the
\* formula holds.
C35_TallyComplete ==
  (box # None /\ box.pc = "done") =>
    /\ box.buttons_total = ButtonsIn(reply_markup.rows)
    /\ box.buttons_clicked + box.buttons_failed + box.buttons_skipped
         = box.buttons_total
    /\ \A c \in box.clicks : c.button = c.at
    /\ \A c, d \in box.clicks :
         (c.ok /\ d.ok /\ c.row = d.row /\ c.button = d.button) => c = d


\* C36: the deletion thread started for a sent word message deletes that
\* message and no other: it never hands the delete of a message of a later
\* iteration to the loop, and it never skips the delete because the worker
\* has reset sent_message while the flag is set.
C36_DeletesOwnMessage ==
  \A i \in 1..Len(deleters) :
    /\ deleters[i].message # None => deleters[i].message = deleters[i].sent
    /\ deleters[i].st # "no_message"

\* a deletion thread has deleted the message of a later iteration
C36_DeletedLaterMessage ==
  \E i \in 1..Len(deleters) :
    /\ deleters[i].st = "deleted"
    /\ deleters[i].message # deleters[i].sent

\* a deletion thread found the worker's variable reset and deleted nothing
C36_SkippedAfterReset ==
  \E i \in 1..Len(deleters) : deleters[i].st = "no_message"


\* the call of send_bonus_message in progress, or the last one, has failed
BonusSendFailed == b_call.result = "False" \/ b_pc = "floodwait"

\* C37: a bonus send that returned False, also after a rate-limit wait, is
\* not retried early: while the loop sleeps after it, the time of the last
\* send is the time the failed attempt completed and the sleep ends a
\* freshly drawn interval, at least BONUS_INTERVAL_MIN, after it; the next
\* attempt is issued from that sleep and not before its end.
C37_NoEarlyRetry ==
  /\ []((b_pc = "sleep" /\ b_call.result = "False")
          => /\ last_send_time = now
             /\ next_interval \in IntervalDraws
             /\ wake_at = last_send_time + next_interval)
  /\ [][(Len(bonus_times') > Len(bonus_times) /\ BonusSendFailed)
          => /\ b_pc = "sleep"
             /\ bonus_times'[Len(bonus_times')] >= wake_at]_vars

\* the first send hit a rate limit and returned False after the wait; the
\* second was issued the shortest interval after that return
C37_Witness ==
  /\ Len(bonus_times) = 2 /\ b_pc = "sending"
  /\ \E w \in FloodSeconds :
       /\ last_send_time = bonus_times[1] + 1 + 100 * w
       /\ bonus_times[2] = last_send_time + BONUS_INTERVAL_MIN
====
